---- MODULE Spec2Model ----
(***************************************************************************)
(* node-apn: the Provider (lib/provider.js) fanning a batch out over       *)
(* Client.write (lib/multiclient.js), with the client's sessions, its requests  *)
(* and its retry policy.                                                   *)
(*                                                                         *)
(* A JavaScript object is a function from its keys (strings) to values; a  *)
(* recipient string and a path are sequences of path segments, so that     *)
(* "/1/apps/x/channels" is <<"1", "apps", "x", "channels">>.               *)
(***************************************************************************)
EXTENDS Integers, Sequences, FiniteSets, TLC

\* Largest number of recipients (or notifications) of one batch call.
MaxBatch == 2

\* Largest number of calls of Client.prototype.shutdown, and of
\* MultiClient.prototype.shutdown.
MaxShutdowns == 2

\* Largest number of sessions of one kind that writes of other calls make the
\* client connect.
MaxSessions == 2

\* Largest clientCount a MultiClient is constructed with.
MaxClients == 3

\* Largest number of send, manageChannels and broadcast calls on a MultiClient.
MaxCalls == 2

\* Largest number of retried requests of one call on a MultiClient.
MaxRetries == 2

\* config.connectionRetryLimit, the default of lib/config.js.
connectionRetryLimit == 3

Undefined == "undefined"

(***************************************************************************)
(* Objects                                                                 *)
(***************************************************************************)
EmptyObject == [k \in {} |-> Undefined]

\* { ...a, ...b }: the keys of b override those of a.
Spread(a, b) == [k \in DOMAIN a \cup DOMAIN b |-> IF k \in DOMAIN b THEN b[k] ELSE a[k]]

\* delete o[key]
DeleteKey(o, key) == [k \in DOMAIN o \ {key} |-> o[k]]

\* new VError(message)
VError(message) == [message |-> message]

\* The truth value JavaScript gives o[key] in `o.status || o.error`: a missing
\* key is undefined, a status is a number, an error is an object.
Truthy(o, key) ==
  /\ key \in DOMAIN o
  /\ CASE key = "status" -> o[key] # 0
       [] key = "retryAfter" -> o[key] # Undefined
       [] OTHER -> TRUE

\* o[key], or undefined when o has no such key.
Get(o, key) == IF key \in DOMAIN o THEN o[key] ELSE Undefined

(***************************************************************************)
(* Client: paths, labels, methods (lib/multiclient.js)                          *)
(***************************************************************************)
NullPath == <<>>

\* Client.prototype.makePath
makePath(type, subDirectory) ==
  CASE type = "channels" -> <<"1", "apps">> \o subDirectory \o <<"channels">>
    [] type = "allChannels" -> <<"1", "apps">> \o subDirectory \o <<"all-channels">>
    [] type = "device" -> <<"3", "device">> \o subDirectory
    [] type = "broadcasts" -> <<"4", "broadcasts", "apps">> \o subDirectory
    [] OTHER -> NullPath

\* Client.prototype.subDirectoryLabel, with the `?? type` of write.
subDirectoryLabel(type) ==
  CASE type = "device" -> "device"
    [] type \in {"channels", "allChannels", "broadcasts"} -> "bundleId"
    [] OTHER -> type

\* Client.prototype.makeSubDirectoryTypeObject
makeSubDirectoryTypeObject(label, subDirectory) == [k \in {label} |-> subDirectory]

\* HTTPMethod[method]; "null" for a method that is no key of the table.
HTTPMethod(method) ==
  CASE method = "post" -> "POST"
    [] method = "get" -> "GET"
    [] method = "delete" -> "DELETE"
    [] OTHER -> "null"

\* path.includes('/1/apps/'): the segments "1", "apps" in a row, followed by
\* at least one more segment.
IncludesManagePrefix(path) ==
  \E i \in 1..Len(path) : i + 2 <= Len(path) /\ path[i] = "1" /\ path[i + 1] = "apps"

\* The session a path is written on.
SessionKind(path) == IF IncludesManagePrefix(path) THEN "manage" ELSE "push"

Kinds == {"push", "manage"}

\* The authority write passes to request with the session of kind k:
\* config.address or config.manageChannelsAddress.
AddressOf(k) == IF k = "push" THEN "address" ELSE "manageChannelsAddress"

(***************************************************************************)
(* Client.prototype.request: the outcome of one HTTP/2 stream              *)
(***************************************************************************)
\* Client.prototype.createHeaderObject
createHeaderObject(uniqueId, requestId, channelId) ==
  LET given == [k \in {"apns-unique-id", "apns-request-id", "apns-channel-id"} |->
                  CASE k = "apns-unique-id" -> uniqueId
                    [] k = "apns-request-id" -> requestId
                    [] OTHER -> channelId]
  IN [k \in {x \in DOMAIN given : given[x] # Undefined} |-> given[k]]

Resolved(value) == [state |-> "fulfilled", value |-> value]
Rejected(reason) == [state |-> "rejected", value |-> reason]

UnexpectedError(cause) ==
  Rejected([error |-> VError("Unexpected error processing APNs response: " \o cause)])

\* The 'end' handler taking 200 alone for a success.
SuccessStatusesOnly200 == {200}

\* status === 200 || status === 201 || status === 204
SuccessStatuses == {200, 201, 204}

\* The 'end' handler of request: the response headers and body decide the
\* outcome. hasToken is config.token being set.
RequestEnd(response, hasToken) ==
  LET headers == response.headers
      status == Get(headers, ":status")
      retryAfter == Get(headers, "Retry-After")
      body == response.body
      headerObject == createHeaderObject(Get(headers, "apns-unique-id"),
                                         Get(headers, "apns-request-id"),
                                         Get(headers, "apns-channel-id"))
  IN IF status \in SuccessStatuses
       THEN IF body.kind = "invalid" THEN UnexpectedError("Unexpected token")
            ELSE Resolved(Spread(headerObject,
                                 IF body.kind = "empty" THEN EmptyObject ELSE body.json))
     ELSE IF body.kind # "empty"
       THEN IF body.kind = "invalid" THEN UnexpectedError("Unexpected token")
            ELSE IF status = 403 /\ Get(body.json, "reason") = "ExpiredProviderToken"
              THEN IF ~hasToken
                     THEN UnexpectedError("Cannot read properties of null")
                     ELSE Rejected(Spread(headerObject,
                            [status |-> status, retryAfter |-> retryAfter,
                             error |-> VError(body.json.reason)]))
            ELSE IF status = 500 /\ Get(body.json, "reason") = "InternalServerError"
              THEN Rejected(Spread(headerObject,
                     [status |-> status, retryAfter |-> retryAfter,
                      error |-> VError("Error 500, stream ended unexpectedly")]))
            ELSE Rejected(Spread(headerObject,
                   [status |-> status, retryAfter |-> retryAfter, response |-> body.json]))
     ELSE Rejected(Spread(headerObject,
            [error |-> VError("stream ended unexpectedly with status " \o ToString(status)
                              \o " and empty body")]))

\* The timeout, 'aborted', 'error' and 'frameError' handlers of request.
StreamEvents == {"timeout", "aborted"}

\* RequestEvent with the timeout reported as a server error of status 500.
RequestEventTimeoutAs500(event) ==
  CASE event = "timeout" -> Rejected([status |-> 500, error |-> VError("apn write timeout")])
    [] event = "aborted" -> Rejected([error |-> VError("apn write aborted")])
    [] event = "error" -> Rejected([error |-> VError("apn write failed: stream error")])
    [] OTHER -> Rejected([error |-> VError("Request frame error: (frameType: 1, errorCode 2, streamId: 3)")])

RequestEvent(event) ==
  CASE event = "timeout" -> Rejected([error |-> VError("apn write timeout")])
    [] event = "aborted" -> Rejected([error |-> VError("apn write aborted")])
    [] event = "error" -> Rejected([error |-> VError("apn write failed: stream error")])
    [] OTHER -> Rejected([error |-> VError("Request frame error: (frameType: 1, errorCode 2, streamId: 3)")])

(***************************************************************************)
(* The server and the callers: the inputs of the model                     *)
(***************************************************************************)
JsonBody(json) == [kind |-> "json", json |-> json]
EmptyBody == [kind |-> "empty"]

Response(status, body) == [headers |-> [k \in {":status"} |-> status], body |-> body]

\* What APNs may answer to one request.
Responses ==
  { [headers |-> (":status" :> 200) @@ ("apns-unique-id" :> "u1"), body |-> EmptyBody],
    Response(200, JsonBody([status |-> 400])),
    Response(201, JsonBody([error |-> VError("ChannelNotRegistered")])),
    Response(400, JsonBody([reason |-> "BadDeviceToken"])),
    [headers |-> (":status" :> 429) @@ ("Retry-After" :> "1"),
     body |-> JsonBody([reason |-> "TooManyRequests"])],
    Response(500, JsonBody([reason |-> "InternalServerError"])),
    Response(403, JsonBody([reason |-> "ExpiredProviderToken"])),
    Response(403, JsonBody([reason |-> "BadCertificate"])),
    Response(503, EmptyBody) }

\* The device tokens of a batch: two tokens in turn, so that a batch of three
\* names one of them twice.
TokenAt(i) == IF i % 2 = 1 THEN <<"t1">> ELSE <<"t2">>
BundleIds == { <<"com.example.app">> }
ManageActions == { "create", "read", "readAll", "delete", "hello" }

\* Notifications as the Provider sees them: headers() and compile().
Notification(channel, body) ==
  [headers |-> [k \in {"apns-channel-id"} |-> channel], body |-> body]

NotificationAt(i) ==
  IF i % 2 = 1 THEN Notification("c1", "{\"aps\":{\"badge\":1}}") ELSE Notification("c2", "{}")

\* The second argument of send, or the first of manageChannels and broadcast:
\* one item, or an array of items.
One(item) == [isArray |-> FALSE, item |-> item]
Array(items) == [isArray |-> TRUE, items |-> items]

\* A recipient string with slashes in it: "t3/1/apps/x".
SlashedToken == <<"t3", "1", "apps", "x">>

RecipientArgs ==
  { One(TokenAt(1)), One(SlashedToken) }
    \cup { Array([i \in 1..n |-> TokenAt(i)]) : n \in 0..MaxBatch }

NotificationArgs ==
  { One(NotificationAt(1)) } \cup { Array([i \in 1..n |-> NotificationAt(i)]) : n \in 0..MaxBatch }

\* A client with token credentials, without proxies or with both.
\* createConnection is the option that connect and manageChannelsConnect
\* set on this.config: "none", or the kind whose proxy socket it returns.
Configs ==
  { [proxy |-> p, manageChannelsProxy |-> p, token |-> TRUE, createConnection |-> "none"] :
      p \in BOOLEAN }

\* A client with any choice of proxies for its two sessions.
ProxyConfigs ==
  { [proxy |-> p, manageChannelsProxy |-> m, token |-> TRUE, createConnection |-> "none"] :
      p \in BOOLEAN, m \in BOOLEAN }

(***************************************************************************)
(* State                                                                   *)
(***************************************************************************)
VARIABLES
  config,          \* the options that matter here: proxies and token credentials
  isDestroyed,     \* Client.isDestroyed
  healthCheckInterval, \* per kind, the PING timer: "set", or "null" once cleared
  token,           \* config.token, the TokenSource: the token, its generation, and
                   \* whether it is 3300 seconds old or more
  pings,           \* the calls of session.ping made by the timers, in order: the
                   \* kind, the session, the state before the call, and whether
                   \* the callback has run and with what
  multi,           \* the MultiClient, once constructed: clients, clientIndex, and
                   \* the client chosen for every write of every call
  shutdowns,       \* the calls of Client.prototype.shutdown made so far: where each
                   \* stands, whether its callback was called, what it closed
  sessions,        \* per kind, every HTTP/2 session created so far: closed, destroyed
  session,         \* per kind, the index in sessions of this.session /
                   \* this.manageChannelsSession; 0 before the first connect
  sessionPromise,  \* per kind, this.sessionPromise / this.manageChannelsSessionPromise
  call,            \* the batch call in progress and its arguments
  callState,       \* "idle", "running", "resolved" or "rejected"
  tasks,           \* one entry per request of the call: where its write stands
  writes,          \* the calls of client.write made by the Provider, in order
  collaborator,    \* the methods of the notifications the Provider called, in order
  settleOrder,     \* the indices of the tasks in the order in which they settled
  result,          \* the value the call resolved with: sent and failed, and for
                   \* each entry of the two the task it comes from
  callError,       \* the value the call rejected with
  input,           \* the arguments of a function studied on its own
  output           \* what the function returned or threw for them

vars == << config, token, isDestroyed, healthCheckInterval, pings, shutdowns, multi, sessions, session, sessionPromise, call, callState,
           tasks, writes, collaborator, settleOrder, result, callError, input, output >>

clientVars ==
  << config, token, isDestroyed, healthCheckInterval, pings, shutdowns, multi, input, output >>

\* The same without the token.
clientFields == << config, isDestroyed, healthCheckInterval, pings, shutdowns, multi, input, output >>

NoInput == [op |-> "none"]
NoOutput == [state |-> "none"]
NoMulti == [state |-> "none"]

NoSettlement == [state |-> "pending", value |-> EmptyObject]

\* The client and the provider after construction with one of configs.
InitWith(configs) ==
  /\ config \in configs
  /\ token = [current |-> 0, generation |-> 0, expired |-> FALSE]
  /\ isDestroyed = FALSE
  /\ healthCheckInterval = [k \in Kinds |-> "set"]
  /\ pings = <<>>
  /\ shutdowns = <<>>
  /\ multi = NoMulti
  /\ sessions = [k \in Kinds |-> <<>>]
  /\ session = [k \in Kinds |-> 0]
  /\ sessionPromise = [k \in Kinds |-> "null"]
  /\ call = [op |-> "none"]
  /\ callState = "idle"
  /\ tasks = <<>>
  /\ writes = <<>>
  /\ collaborator = <<>>
  /\ settleOrder = <<>>
  /\ result = [sent |-> <<>>, failed |-> <<>>, sentFrom |-> <<>>, failedFrom |-> <<>>]
  /\ callError = EmptyObject

InitClient == InitWith(Configs)

Init ==
  /\ InitClient
  /\ input = NoInput
  /\ output = NoOutput

(***************************************************************************)
(* Client.prototype.write and Client.prototype.retryRequest                *)
(***************************************************************************)
retryStatusCodes == {408, 429, 500, 502, 503, 504}

\* "Determine if this is a retryable request", the condition of write.
Retryable(error) ==
  \/ "status" \in DOMAIN error /\ error.status \in retryStatusCodes
  \/ /\ "error" \in DOMAIN error
     /\ "status" \in DOMAIN error /\ error.status = 403
     /\ Get(error.error, "message") = "ExpiredProviderToken"

ClosedError == [error |-> VError("client session is either closed or destroyed")]

\* createProxySocket rejecting with the error of the socket itself.
ProxyErrorBare == VError("connect ECONNREFUSED 127.0.0.1:3311")

\* What createProxySocket rejects with; write wraps it under `error`.
ProxyError == [error |-> VError("cannot connect to proxy server: ECONNREFUSED")]

\* What session.request throws on a closed or destroyed session.
InvalidSessionError == [code |-> "ERR_HTTP2_INVALID_SESSION"]

\* The label object of a write: subDirectoryInformation.
Label(t) == makeSubDirectoryTypeObject(subDirectoryLabel(t.type), t.subDirectory)

SessionOpen(ss, k, s) == s # 0 /\ ~ss[k][s].closed /\ ~ss[k][s].destroyed

\* The error retryRequest throws once the retry count has passed the limit.
LimitError(error) == error

\* retryRequest comparing count, not count + 1, with the limit.
retryRequestOffByOne(error, k, s, count) ==
  IF isDestroyed \/ sessions[k][s].closed
    THEN [throw |-> TRUE, error |-> ClosedError, via |-> "closed", count |-> count, sess |-> s]
  ELSE IF count > connectionRetryLimit
    THEN [throw |-> TRUE, error |-> LimitError(error), via |-> "limit", count |-> count,
          sess |-> s]
  ELSE [throw |-> FALSE, error |-> error, via |-> "retry", count |-> count + 1, sess |-> s]

\* retryRequest without its test of the client and the session.
retryRequestUnchecked(error, k, s, count) ==
  IF count + 1 > connectionRetryLimit
    THEN [throw |-> TRUE, error |-> LimitError(error), via |-> "limit", count |-> count,
          sess |-> s]
  ELSE [throw |-> FALSE, error |-> error, via |-> "retry", count |-> count + 1, sess |-> s]

\* retryRequest up to its delay: it throws, or it waits and will issue attempt
\* count + 1 on the session it was given.
retryRequest(error, k, s, count) ==
  IF isDestroyed \/ sessions[k][s].closed
    THEN [throw |-> TRUE, error |-> ClosedError, via |-> "closed", count |-> count, sess |-> s]
  ELSE IF count + 1 > connectionRetryLimit
    THEN [throw |-> TRUE, error |-> LimitError(error), via |-> "limit", count |-> count,
          sess |-> s]
  ELSE [throw |-> FALSE, error |-> error, via |-> "retry", count |-> count + 1, sess |-> s]

\* The catch of a failed attempt: of write for the first attempt (count 0), of
\* retryRequest for a retry, which calls itself whatever the failure is.
AfterFailure(t, error) ==
  IF t.count = 0
    THEN IF Retryable(error)
           THEN retryRequest(error, t.kind, session[t.kind], 0)
           ELSE [throw |-> TRUE, error |-> error, via |-> "notRetryable", count |-> 0,
                 sess |-> t.sess]
    ELSE retryRequest(error, t.kind, t.sess, t.count)

\* Propagated without the delete of retryAfter.
PropagatedWithRetryAfter(t, error) == Rejected(Spread(Label(t), error))

\* "Never propagate retryAfter outside of client", then the label is added.
Propagated(t, error) == Rejected(Spread(Label(t), DeleteKey(error, "retryAfter")))

\* The task of a write that has thrown `error`: settled, or waiting for the
\* close of the session when write tears it down.
Thrown(t, error, via, waits) ==
  [t EXCEPT !.pc = IF waits THEN "closing" ELSE "done",
            !.outcome = Propagated(t, error),
            !.via = via]

\* TearsDown reading a key the error does not have: it never tears down.
TearsDownNever(thrown) ==
  /\ thrown.via \in {"closed", "limit"}
  /\ "statusCode" \in DOMAIN thrown.error
  /\ thrown.error.statusCode = 500

\* Whether the catch around retryRequest tears the session down.
TearsDown(thrown) ==
  /\ thrown.via \in {"closed", "limit"}
  /\ "status" \in DOMAIN thrown.error
  /\ thrown.error.status = 500

\* closeAndDestroySession(this.session) as far as it runs at once: close() on
\* an open session, destroy() on a closed one.
closeAndDestroySession(ss, k, s) ==
  IF s = 0 THEN ss
  ELSE IF ~ss[k][s].closed THEN [ss EXCEPT ![k][s].closed = TRUE]
  ELSE [ss EXCEPT ![k][s].destroyed = TRUE]

\* The writes waiting for the close of session s of kind k go on.
Released(ts, k, s) ==
  [i \in 1..Len(ts) |->
     IF ts[i].pc = "closing" /\ ts[i].kind = k /\ ts[i].sess = s
       THEN [ts[i] EXCEPT !.pc = "done"]
       ELSE ts[i]]

RECURSIVE Ascending(_)
Ascending(S) ==
  IF S = {} THEN <<>>
  ELSE LET m == CHOOSE x \in S : \A y \in S : x <= y IN <<m>> \o Ascending(S \ {m})

\* The tasks that settle in a step, appended in the order of their callbacks.
NewlySettled(old, new) ==
  Ascending({i \in 1..Len(new) : new[i].pc = "done" /\ (i > Len(old) \/ old[i].pc # "done")})

RECURSIVE Join(_)
\* The recipient string of a sequence of segments.
Join(segments) ==
  IF Len(segments) = 0 THEN ""
  ELSE IF Len(segments) = 1 THEN segments[1]
  ELSE segments[1] \o "/" \o Join(Tail(segments))

(***************************************************************************)
(* The token of the provider (config.token)                                *)
(***************************************************************************)
\* `let tokenGeneration = null`: no generation observed.
NoGeneration == -1

\* token.isExpired(3300): the token was issued 3300 seconds ago or more.
isExpired(tok) == tok.expired

\* token.regenerate(observed): a new token is minted and the generation goes
\* up by one when observed is the generation of the token; nothing happens
\* otherwise.
regenerate(tok, observed) ==
  IF observed = tok.generation
    THEN [current |-> tok.generation + 1, generation |-> tok.generation + 1, expired |-> FALSE]
    ELSE tok

\* The token handling of request without the test of expiry.
AuthorizedUnchecked(tok) == tok

\* The token handling of request: an expired token is regenerated, with the
\* generation it has, before the authorization header is set.
Authorized(tok) == IF isExpired(tok) THEN regenerate(tok, tok.generation) ELSE tok

\* request issued by task t with the token as it is: `bearer <current>` in
\* the authorization header, and the generation kept in tokenGeneration.
Requested(t) ==
  [t EXCEPT !.authorization = Authorized(token).current,
            !.tokenGeneration = Authorized(token).generation]

\* The 'end' handler on a 403 ExpiredProviderToken regenerating with the
\* generation of the token as it is then.
EndedUnobserved(tok, t, response) ==
  IF /\ Get(response.headers, ":status") = 403
     /\ response.body.kind \notin {"empty", "invalid"}
     /\ Get(response.body.json, "reason") = "ExpiredProviderToken"
    THEN regenerate(tok, tok.generation)
    ELSE tok

\* The 'end' handler leaving the token as it is.
EndedUnchanged(tok, t, response) == tok

\* The token after the 'end' handler of the request of task t: a 403 with
\* reason ExpiredProviderToken regenerates with the generation the request
\* observed.
Ended(tok, t, response) ==
  IF /\ Get(response.headers, ":status") = 403
     /\ response.body.kind \notin {"empty", "invalid"}
     /\ Get(response.body.json, "reason") = "ExpiredProviderToken"
    THEN regenerate(tok, t.tokenGeneration)
    ELSE tok

NewTask(item) ==
  [pc |-> "unstarted", type |-> item.type, method |-> item.method,
   subDirectory |-> item.subDirectory, kind |-> "push", address |-> "none", sess |-> 0,
   count |-> 0,
   outcome |-> NoSettlement, last |-> EmptyObject, attempts |-> 0, via |-> "none",
   authorization |-> NoGeneration, tokenGeneration |-> NoGeneration, first |-> 0]

\* write without its test of the client.
ClientDestroyedUntested == FALSE

\* `if (this.isDestroyed)` of write.
ClientDestroyed == isDestroyed

\* write up to its first suspension: it throws, it awaits the connection, or
\* it issues the first attempt on the open session. sp is the pair of session
\* promises, which connect() may set.
write(item, sp) ==
  LET t == NewTask(item)
      path == makePath(item.type, item.subDirectory)
      k == SessionKind(path)
      failed(message, via) ==
        [t EXCEPT !.pc = "done", !.via = via,
                  !.outcome = Rejected(Spread(Label(t), [error |-> VError(message)]))]
  IN IF path = NullPath
       THEN [task |-> failed("could not make a path for " \o item.type \o " and "
                             \o Join(item.subDirectory), "path"),
             sessionPromise |-> sp]
     ELSE IF HTTPMethod(item.method) = "null"
       THEN [task |-> failed("invalid httpMethod \"" \o item.method \o "\"", "method"),
             sessionPromise |-> sp]
     ELSE IF ClientDestroyed
       THEN [task |-> failed("client is destroyed", "destroyed"), sessionPromise |-> sp]
     ELSE IF ~SessionOpen(sessions, k, session[k])
       THEN IF sp[k] = "rejected"
              THEN [task |-> [t EXCEPT !.pc = "done", !.kind = k, !.via = "connect",
                                       !.address = AddressOf(k),
                                       !.outcome = Rejected(Spread(Label(t),
                                                              [error |-> ProxyError]))],
                    sessionPromise |-> sp]
              ELSE [task |-> [t EXCEPT !.pc = "connecting", !.kind = k,
                                       !.address = AddressOf(k)],
                    sessionPromise |-> [sp EXCEPT ![k] = "pending"]]
     ELSE [task |-> Requested([t EXCEPT !.pc = "inflight", !.kind = k,
                                        !.address = AddressOf(k),
                                        !.sess = session[k], !.first = session[k],
                                        !.attempts = 1]),
           sessionPromise |-> sp]

RECURSIVE WriteEach(_, _)
\* items.map(async item => await this.client.write(...)): every write runs up
\* to its first suspension, one after the other, before the map returns.
WriteEach(items, acc) ==
  IF Len(items) = 0 THEN acc
  ELSE LET w == write(Head(items), acc.sessionPromise)
       IN WriteEach(Tail(items),
                    [tasks |-> Append(acc.tasks, w.task), sessionPromise |-> w.sessionPromise])

\* The requests of a batch as the call leaves them when it suspends.
StartWrites(items) == WriteEach(items, [tasks |-> <<>>, sessionPromise |-> sessionPromise])

(***************************************************************************)
(* Provider (lib/provider.js)                                              *)
(***************************************************************************)
\* Normalize without the wrapping of a single item.
NormalizeArraysOnly(arg) == IF arg.isArray THEN arg.items ELSE <<>>

\* if (!Array.isArray(x)) x = [x]
Normalize(arg) == IF arg.isArray THEN arg.items ELSE <<arg.item>>

\* The switch without its default case.
AnyAction == ManageActions

\* The cases of the switch of manageChannels.
SupportedActions == {"create", "read", "readAll", "delete"}

\* ActionRequest with readAll sent to the type of read.
ActionRequestReadAllAsRead(action) ==
  CASE action = "create" -> [type |-> "channels", method |-> "post"]
    [] action = "read" -> [type |-> "channels", method |-> "get"]
    [] action = "readAll" -> [type |-> "channels", method |-> "get"]
    [] action = "delete" -> [type |-> "channels", method |-> "delete"]
    [] OTHER -> [type |-> "channels", method |-> "post"]

\* The type and method the switch of manageChannels sets for a supported
\* action; before the switch they are 'channels' and 'post'.
ActionRequest(action) ==
  CASE action = "create" -> [type |-> "channels", method |-> "post"]
    [] action = "read" -> [type |-> "channels", method |-> "get"]
    [] action = "readAll" -> [type |-> "allChannels", method |-> "get"]
    [] action = "delete" -> [type |-> "channels", method |-> "delete"]
    [] OTHER -> [type |-> "channels", method |-> "post"]

\* Promise.all in the place of Promise.allSettled: rejected with the reason of
\* a task that rejected, fulfilled once every task has fulfilled.
PromiseAll(ts) ==
  IF \E i \in 1..Len(ts) : ts[i].pc = "done" /\ ts[i].outcome.state = "rejected"
    THEN [state |-> "rejected",
          value |-> ts[CHOOSE i \in 1..Len(ts) :
                         ts[i].pc = "done" /\ ts[i].outcome.state = "rejected"].outcome.value,
          order |-> <<>>]
  ELSE IF \A i \in 1..Len(ts) : ts[i].pc = "done"
    THEN [state |-> "fulfilled", value |-> [i \in 1..Len(ts) |-> ts[i].outcome],
          order |-> [i \in 1..Len(ts) |-> i]]
    ELSE [state |-> "pending", value |-> <<>>, order |-> <<>>]

\* The settlements collected in the order in which the tasks settled.
AllSettledInCompletionOrder(ts) ==
  IF \A i \in 1..Len(ts) : ts[i].pc = "done"
    THEN [state |-> "fulfilled",
          value |-> [j \in 1..Len(ts) |-> ts[settleOrder[j]].outcome],
          order |-> settleOrder]
    ELSE [state |-> "pending", value |-> <<>>, order |-> <<>>]

\* Promise.allSettled over the tasks: pending until every one has settled,
\* then fulfilled with the settlements in the order of the tasks.
AllSettled(ts) ==
  IF \A i \in 1..Len(ts) : ts[i].pc = "done"
    THEN [state |-> "fulfilled", value |-> [i \in 1..Len(ts) |-> ts[i].outcome],
          order |-> [i \in 1..Len(ts) |-> i]]
    ELSE [state |-> "pending", value |-> <<>>, order |-> <<>>]

\* IsSent with the test of `error` left out.
IsSentIgnoringError(settlement) ==
  /\ settlement.state = "fulfilled"
  /\ ~Truthy(settlement.value, "status")

NoResult == [sent |-> <<>>, failed |-> <<>>, sentFrom |-> <<>>, failedFrom |-> <<>>]

\* Whether a settlement goes to `sent`.
IsSent(settlement) ==
  /\ settlement.state = "fulfilled"
  /\ ~(Truthy(settlement.value, "status") \/ Truthy(settlement.value, "error"))

RECURSIVE PartitionFulfilled(_, _, _)
\* Partition with the branch of the rejected settlements left out.
PartitionFulfilled(settlements, order, acc) ==
  IF Len(settlements) = 0 THEN acc
  ELSE LET x == Head(settlements)
       IN PartitionFulfilled(Tail(settlements), Tail(order),
            IF x.state # "fulfilled" THEN acc
            ELSE IF IsSent(x)
              THEN [acc EXCEPT !.sent = Append(@, x.value),
                               !.sentFrom = Append(@, Head(order))]
              ELSE [acc EXCEPT !.failed = Append(@, x.value),
                               !.failedFrom = Append(@, Head(order))])

RECURSIVE Partition(_, _, _)
\* sentNotifications.forEach(...): push each value to sent or to failed.
\* sentFrom and failedFrom remember the task each entry comes from.
Partition(settlements, order, acc) ==
  IF Len(settlements) = 0 THEN acc
  ELSE LET x == Head(settlements)
       IN Partition(Tail(settlements), Tail(order),
            IF IsSent(x)
              THEN [acc EXCEPT !.sent = Append(@, x.value),
                               !.sentFrom = Append(@, Head(order))]
              ELSE [acc EXCEPT !.failed = Append(@, x.value),
                               !.failedFrom = Append(@, Head(order))])


Built(notification) == [headers |-> notification.headers, body |-> notification.body]

\* The call has made its writes and awaits Promise.allSettled.
Fanout(op, items, calls) ==
  LET started == StartWrites(items)
  IN /\ call' = op
     /\ callState' = "running"
     /\ writes' = items
     /\ collaborator' = calls
     /\ tasks' = started.tasks
     /\ sessionPromise' = started.sessionPromise
     /\ settleOrder' = NewlySettled(<<>>, started.tasks)
     /\ token' = IF \E i \in 1..Len(started.tasks) : started.tasks[i].pc = "inflight"
                   THEN Authorized(token)
                   ELSE token
     /\ UNCHANGED << clientFields, sessions, session, result, callError >>

RECURSIVE Flatten(_)
Flatten(seqs) == IF Len(seqs) = 0 THEN <<>> ELSE Head(seqs) \o Flatten(Tail(seqs))

\* The writes of send: the notification is built once, one write per recipient.
SendWrites(arg) ==
  LET built == Built(NotificationAt(1))
      recipients == Normalize(arg)
  IN [i \in 1..Len(recipients) |->
        [notification |-> built, subDirectory |-> recipients[i],
         type |-> "device", method |-> "post"]]

\* The writes of manageChannels: one per notification, all to bundleId.
ManageChannelsWrites(arg, bundleId, action) ==
  LET notifications == Normalize(arg)
  IN [i \in 1..Len(notifications) |->
        [notification |-> Built(notifications[i]), subDirectory |-> bundleId,
         type |-> ActionRequest(action).type, method |-> ActionRequest(action).method]]

\* The writes of broadcast: one per notification, all to bundleId.
BroadcastWrites(arg, bundleId) ==
  LET notifications == Normalize(arg)
  IN [i \in 1..Len(notifications) |->
        [notification |-> Built(notifications[i]), subDirectory |-> bundleId,
         type |-> "broadcasts", method |-> "post"]]

\* Provider.prototype.send
Send(arg) ==
  /\ callState = "idle"
  /\ Fanout([op |-> "send", arg |-> arg],
            SendWrites(arg),
            << [notification |-> 1, method |-> "headers"],
               [notification |-> 1, method |-> "compile"] >>)

\* Provider.prototype.manageChannels
ManageChannels(arg, bundleId, action) ==
  LET notifications == Normalize(arg)
      op == [op |-> "manageChannels", arg |-> arg, bundleId |-> bundleId, action |-> action]
  IN /\ callState = "idle"
     /\ IF action \notin SupportedActions
          THEN /\ call' = op
               /\ callState' = "rejected"
               /\ callError' = [bundleId |-> bundleId,
                                error |-> VError("the action \"" \o action
                                                 \o "\" is not supported")]
               /\ UNCHANGED << clientVars, sessions, session, sessionPromise, tasks, writes,
                               collaborator, settleOrder, result >>
          ELSE Fanout(op,
                 ManageChannelsWrites(arg, bundleId, action),
                 Flatten([i \in 1..Len(notifications) |->
                    (IF action = "create"
                       THEN << [notification |-> i, method |-> "addPushTypeToPayloadIfNeeded"] >>
                       ELSE << >>)
                    \o << [notification |-> i, method |-> "removeNonChannelRelatedProperties"],
                          [notification |-> i, method |-> "headers"],
                          [notification |-> i, method |-> "compile"] >>]))

\* Provider.prototype.broadcast
Broadcast(arg, bundleId) ==
  LET notifications == Normalize(arg)
  IN /\ callState = "idle"
     /\ Fanout([op |-> "broadcast", arg |-> arg, bundleId |-> bundleId],
               BroadcastWrites(arg, bundleId),
               Flatten([i \in 1..Len(notifications) |->
                  << [notification |-> i, method |-> "headers"],
                     [notification |-> i, method |-> "compile"] >>]))

\* The await of Promise.allSettled returns and the call partitions the
\* settlements.
Return ==
  LET all == AllSettled(tasks)
  IN /\ callState = "running"
     /\ all.state # "pending"
     /\ IF all.state = "fulfilled"
          THEN /\ callState' = "resolved"
               /\ result' = Partition(all.value, all.order, NoResult)
               /\ UNCHANGED callError
          ELSE /\ callState' = "rejected"
               /\ callError' = all.value
               /\ UNCHANGED result
     /\ UNCHANGED << clientVars, sessions, session, sessionPromise, call, tasks, writes,
                     collaborator, settleOrder >>

(***************************************************************************)
(* Client: the steps of a write after its first suspension                 *)
(***************************************************************************)
providerVars == << call, callState, writes, collaborator, result, callError >>

\* The tasks change, and those that settle are appended to the order.
Step(ts) ==
  /\ tasks' = ts
  /\ settleOrder' = settleOrder \o NewlySettled(tasks, ts)

ProxyOf(k) == IF k = "push" THEN config.proxy ELSE config.manageChannelsProxy

\* this.config after the `then` of connect / manageChannelsConnect of kind k:
\* a dial through the proxy of k leaves its socket in createConnection, a
\* dial without proxy leaves createConnection as it was.
Connected(k) == IF ProxyOf(k) THEN [config EXCEPT !.createConnection = k] ELSE config

\* http2.connect(url, config) with the config as it is then: the session runs
\* over the socket of createConnection, or over one of its own ("none").
NewSession(k) ==
  [closed |-> FALSE, destroyed |-> FALSE, socket |-> Connected(k).createConnection]

\* connect without the shared promise: every write that awaits gets a session
\* of its own.
ConnectResolvePerWrite(k) ==
  LET waiting == { i \in 1..Len(tasks) : tasks[i].pc = "connecting" /\ tasks[i].kind = k }
      place(i) == Len(sessions[k]) + Cardinality({ j \in waiting : j <= i })
      fresh == [n \in 1..Cardinality(waiting) |-> NewSession(k)]
  IN /\ sessionPromise[k] = "pending"
     /\ sessionPromise' = [sessionPromise EXCEPT ![k] = "null"]
     /\ sessions' = [sessions EXCEPT ![k] = @ \o fresh]
     /\ session' = [session EXCEPT ![k] = Len(sessions[k]) + Cardinality(waiting)]
     /\ Step([i \in 1..Len(tasks) |->
                IF i \in waiting
                  THEN Requested([tasks[i] EXCEPT !.pc = "inflight", !.sess = place(i),
                                                  !.first = place(i), !.attempts = 1])
                  ELSE tasks[i]])
     /\ config' = Connected(k)
     /\ token' = Authorized(token)
     /\ UNCHANGED << isDestroyed, healthCheckInterval, pings, shutdowns, multi, input, output,
                     providerVars >>

\* The `then` of connect / manageChannelsConnect: the session is created and
\* every write that awaited the promise issues its first attempt on it.
ConnectResolve(k) ==
  LET s == Len(sessions[k]) + 1
  IN /\ sessionPromise[k] = "pending"
     /\ sessionPromise' = [sessionPromise EXCEPT ![k] = "null"]
     /\ config' = Connected(k)
     /\ token' = Authorized(token)
     /\ sessions' = [sessions EXCEPT ![k] = Append(@, NewSession(k))]
     /\ session' = [session EXCEPT ![k] = s]
     /\ Step([i \in 1..Len(tasks) |->
                IF tasks[i].pc = "connecting" /\ tasks[i].kind = k
                  THEN Requested([tasks[i] EXCEPT !.pc = "inflight", !.sess = s,
                                                  !.first = s, !.attempts = 1])
                  ELSE tasks[i]])
     /\ UNCHANGED << isDestroyed, healthCheckInterval, pings, shutdowns, multi, input, output,
                     providerVars >>

\* createProxySocket rejects: the promise stays rejected and every write that
\* awaited it throws.
ConnectReject(k) ==
  /\ sessionPromise[k] = "pending"
  /\ ProxyOf(k)
  /\ sessionPromise' = [sessionPromise EXCEPT ![k] = "rejected"]
  /\ Step([i \in 1..Len(tasks) |->
             IF tasks[i].pc = "connecting" /\ tasks[i].kind = k
               THEN [tasks[i] EXCEPT !.pc = "done", !.via = "connect",
                                     !.outcome = Rejected(Spread(Label(tasks[i]),
                                                            [error |-> ProxyError]))]
               ELSE tasks[i]])
  /\ UNCHANGED << clientVars, sessions, session, providerVars >>

\* The catch of write closing the oldest session of the kind.
TornDownOldest(t) == IF Len(sessions[t.kind]) = 0 THEN 0 ELSE 1

\* The session the catch of write closes on a final status 500: this.session
\* or this.manageChannelsSession as it is then.
TornDown(t) == session[t.kind]

\* The promise of request settles for task i, and write or retryRequest goes
\* on up to its next suspension.
RequestSettled(i, settlement) ==
  LET t == tasks[i]
  IN IF settlement.state = "fulfilled"
       THEN /\ Step([tasks EXCEPT ![i] =
                       [t EXCEPT !.pc = "done", !.via = "ok", !.last = EmptyObject,
                                 !.outcome = Resolved(Spread(Label(t), settlement.value))]])
            /\ UNCHANGED sessions
       ELSE LET error == settlement.value
                failedTask == [t EXCEPT !.last = error]
                next == AfterFailure(t, error)
            IN IF ~next.throw
                 THEN /\ Step([tasks EXCEPT ![i] =
                                 [failedTask EXCEPT !.pc = "delay", !.count = next.count,
                                                    !.sess = next.sess]])
                      /\ UNCHANGED sessions
               ELSE IF TearsDown(next)
                 THEN LET s == TornDown(t)
                          waits == SessionOpen(sessions, t.kind, s)
                          ss == closeAndDestroySession(sessions, t.kind, s)
                          thrown == Thrown([failedTask EXCEPT !.sess = s], next.error,
                                           next.via, waits)
                      IN /\ sessions' = ss
                         /\ Step(IF waits THEN [tasks EXCEPT ![i] = thrown]
                                 ELSE Released([tasks EXCEPT ![i] = thrown], t.kind, s))
               ELSE /\ Step([tasks EXCEPT ![i] = Thrown(failedTask, next.error, next.via,
                                                        FALSE)])
                    /\ UNCHANGED sessions

\* The stream of task i ends with a response.
Respond(i, response) ==
  /\ i \in 1..Len(tasks)
  /\ tasks[i].pc = "inflight"
  /\ ~sessions[tasks[i].kind][tasks[i].sess].destroyed
  /\ RequestSettled(i, RequestEnd(response, config.token))
  /\ token' = Ended(token, tasks[i], response)
  /\ UNCHANGED << clientFields, session, sessionPromise, providerVars >>

\* The stream of task i times out, is aborted or fails.
StreamEvent(i, event) ==
  /\ i \in 1..Len(tasks)
  /\ tasks[i].pc = "inflight"
  /\ RequestSettled(i, RequestEvent(event))
  /\ UNCHANGED << clientVars, session, sessionPromise, providerVars >>

\* The retry issued without session.request refusing a closed session.
DelayElapsedUnchecked(i) ==
  /\ i \in 1..Len(tasks)
  /\ tasks[i].pc = "delay"
  /\ Step([tasks EXCEPT ![i] = Requested([@ EXCEPT !.pc = "inflight", !.last = EmptyObject,
                                                   !.attempts = @ + 1])])
  /\ token' = Authorized(token)
  /\ UNCHANGED << clientFields, sessions, session, sessionPromise, providerVars >>

\* The delay of retryRequest is over: request sets the authorization header
\* and issues the next attempt on the session the retry was given. On a
\* closed session session.request throws, and retryRequest, calling itself,
\* throws that the session is closed.
DelayElapsed(i) ==
  /\ i \in 1..Len(tasks)
  /\ tasks[i].pc = "delay"
  /\ LET t == tasks[i]
     IN IF sessions[t.kind][t.sess].closed
          THEN LET next == retryRequest(InvalidSessionError, t.kind, t.sess, t.count)
               IN Step([tasks EXCEPT ![i] = Thrown(t, next.error, next.via, FALSE)])
          ELSE Step([tasks EXCEPT ![i] = Requested([t EXCEPT !.pc = "inflight",
                                                             !.last = EmptyObject,
                                                             !.attempts = @ + 1])])
  /\ token' = Authorized(token)
  /\ UNCHANGED << clientFields, sessions, session, sessionPromise, providerVars >>

\* A closed session with no stream left emits 'close': it is destroyed and
\* the callbacks of close() run.
SessionClosed(k, s) ==
  /\ s \in 1..Len(sessions[k])
  /\ sessions[k][s].closed
  /\ ~sessions[k][s].destroyed
  /\ \A i \in 1..Len(tasks) :
       ~(tasks[i].pc = "inflight" /\ tasks[i].kind = k /\ tasks[i].sess = s)
  /\ sessions' = [sessions EXCEPT ![k][s].destroyed = TRUE]
  /\ Step(Released(tasks, k, s))
  /\ UNCHANGED << clientVars, session, sessionPromise, providerVars >>

(***************************************************************************)
(* Client.prototype.shutdown                                               *)
(***************************************************************************)
\* The fields of the client that shutdown reads and writes.
ThisClient ==
  [isDestroyed |-> isDestroyed, healthCheckInterval |-> healthCheckInterval,
   sessions |-> sessions, session |-> session, shutdowns |-> shutdowns]

\* Whether closeAndDestroySession calls close() or destroy() on session s of
\* kind k: there is a session and it is not destroyed yet.
Acts(c, k, s) == IF s = 0 THEN FALSE ELSE ~c.sessions[k][s].destroyed

\* The promise of closeAndDestroySession for session s has resolved: there
\* was no session, or the session is destroyed.
SessionGone(c, k, s) == IF s = 0 THEN TRUE ELSE c.sessions[k][s].destroyed

\* shutdown(callback) up to its first await: a client already destroyed
\* calls the callback and returns; otherwise the client is marked, the
\* timers are cleared and closeAndDestroySession(this.session) begins.
shutdownBegin(c, callback) ==
  IF c.isDestroyed
    THEN [c EXCEPT !.shutdowns = Append(@,
            [pc |-> "done", target |-> 0, callback |-> callback, called |-> 1,
             closes |-> 0, clears |-> 0])]
    ELSE LET s == c.session["push"]
         IN [c EXCEPT !.isDestroyed = TRUE,
                      !.healthCheckInterval = [k \in Kinds |-> "null"],
                      !.sessions = closeAndDestroySession(c.sessions, "push", s),
                      !.shutdowns = Append(@,
                         [pc |-> "push", target |-> s, callback |-> callback, called |-> 0,
                          closes |-> IF Acts(c, "push", s) THEN 1 ELSE 0,
                          clears |-> Cardinality({k \in Kinds :
                                                   c.healthCheckInterval[k] = "set"})])]

\* The first await of call n is over: closeAndDestroySession of
\* this.manageChannelsSession, as it is now, begins.
shutdownAfterPush(c, n) ==
  LET s == c.session["manage"]
  IN [c EXCEPT !.sessions = closeAndDestroySession(c.sessions, "manage", s),
               !.shutdowns[n] = [@ EXCEPT !.pc = "manage", !.target = s,
                                          !.closes = @ + IF Acts(c, "manage", s) THEN 1 ELSE 0]]

\* The second await of call n is over: the callback is called.
shutdownAfterManage(c, n) ==
  [c EXCEPT !.shutdowns[n] = [@ EXCEPT !.pc = "done", !.called = @ + 1]]

\* Call n goes on as far as it can without waiting: an await of
\* closeAndDestroySession that had no session, or one already closed that it
\* destroyed at once, is over before any other event is handled.
Continue(c, n) ==
  LET c1 == IF c.shutdowns[n].pc = "push"
               /\ SessionGone(c, "push", c.shutdowns[n].target)
              THEN shutdownAfterPush(c, n) ELSE c
  IN IF c1.shutdowns[n].pc = "manage"
        /\ SessionGone(c1, "manage", c1.shutdowns[n].target)
       THEN shutdownAfterManage(c1, n) ELSE c1

\* Client.prototype.shutdown, up to the first await that has to wait.
shutdown(c, callback) ==
  Continue(shutdownBegin(c, callback), Len(c.shutdowns) + 1)

\* The writes waiting for the close of a session that is now destroyed go on.
ReleasedDestroyed(ts, ss) ==
  [i \in 1..Len(ts) |->
     IF ts[i].pc = "closing" /\ ss[ts[i].kind][ts[i].sess].destroyed
       THEN [ts[i] EXCEPT !.pc = "done"]
       ELSE ts[i]]

\* The client takes the fields of c.
Becomes(c) ==
  /\ isDestroyed' = c.isDestroyed
  /\ healthCheckInterval' = c.healthCheckInterval
  /\ sessions' = c.sessions
  /\ shutdowns' = c.shutdowns
  /\ Step(ReleasedDestroyed(tasks, c.sessions))
  /\ UNCHANGED << config, token, pings, multi, input, output, session, sessionPromise,
                  providerVars >>

\* client.shutdown(callback) is called.
Shutdown ==
  /\ Len(shutdowns) < MaxShutdowns
  /\ Becomes(shutdown(ThisClient, Len(shutdowns) + 1))

\* The session that shutdown call n waits for is gone: the callback it gave
\* to close() runs and the call goes on.
CloseCallback(n) ==
  /\ n \in 1..Len(shutdowns)
  /\ shutdowns[n].pc \in {"push", "manage"}
  /\ SessionGone(ThisClient, shutdowns[n].pc, shutdowns[n].target)
  /\ Becomes(Continue(ThisClient, n))

Next ==
  \/ \E arg \in RecipientArgs : Send(arg)
  \/ \E arg \in NotificationArgs, b \in BundleIds, a \in ManageActions :
       ManageChannels(arg, b, a)
  \/ \E arg \in NotificationArgs, b \in BundleIds : Broadcast(arg, b)
  \/ \E k \in Kinds : ConnectResolve(k)
  \/ \E k \in Kinds : ConnectReject(k)
  \/ \E i \in 1..MaxBatch, r \in Responses : Respond(i, r)
  \/ \E i \in 1..MaxBatch, e \in StreamEvents : StreamEvent(i, e)
  \/ \E i \in 1..MaxBatch : DelayElapsed(i)
  \/ \E k \in Kinds : \E s \in 1..Len(sessions[k]) : SessionClosed(k, s)
  \/ Return

Spec == Init /\ [][Next]_vars

\* The client with calls of one recipient or one notification, and shutdown.
NextShutdown ==
  \/ Send(One(TokenAt(1)))
  \/ \E b \in BundleIds : ManageChannels(One(NotificationAt(1)), b, "create")
  \/ \E k \in Kinds : ConnectResolve(k)
  \/ \E k \in Kinds : ConnectReject(k)
  \/ \E r \in Responses : Respond(1, r)
  \/ \E e \in StreamEvents : StreamEvent(1, e)
  \/ DelayElapsed(1)
  \/ \E k \in Kinds : \E s \in 1..Len(sessions[k]) : SessionClosed(k, s)
  \/ Return
  \/ Shutdown
  \/ \E n \in 1..MaxShutdowns : CloseCallback(n)

SpecShutdown == Init /\ [][NextShutdown]_vars

(***************************************************************************)
(* The events of a session (handlers set in connect)                       *)
(***************************************************************************)
\* 'goaway' and 'frameError' reach the handler with the session as it is;
\* 'error' is emitted by a session that is being destroyed for that error.
SessionEvents == {"goaway", "error", "frameError"}

\* The handlers acting on this.session, not on the session they were set on.
SessionEventOnCurrent(k, s, event) ==
  /\ s \in 1..Len(sessions[k])
  /\ ~sessions[k][s].destroyed
  /\ sessions' = IF event = "error"
                   THEN [sessions EXCEPT ![k][session[k]] =
                           [@ EXCEPT !.closed = TRUE, !.destroyed = TRUE]]
                   ELSE closeAndDestroySession(sessions, k, session[k])
  /\ Step(ReleasedDestroyed(tasks, sessions'))
  /\ UNCHANGED << clientVars, session, sessionPromise, providerVars >>

\* The handlers of 'error', 'goaway' and 'frameError': each calls
\* closeAndDestroySession(session) for the session it was set on.
SessionEvent(k, s, event) ==
  /\ s \in 1..Len(sessions[k])
  /\ ~sessions[k][s].destroyed
  /\ sessions' = IF event = "error"
                   THEN [sessions EXCEPT ![k][s] = [@ EXCEPT !.closed = TRUE, !.destroyed = TRUE]]
                   ELSE closeAndDestroySession(sessions, k, s)
  /\ Step(ReleasedDestroyed(tasks, sessions'))
  /\ UNCHANGED << clientVars, session, sessionPromise, providerVars >>

\* A write of another call, as far as it touches the connection: it finds
\* the client alive and the session of kind k absent, closed or destroyed,
\* and calls connect, which starts an attempt unless one is in flight.
WriteConnects(k) ==
  /\ ~isDestroyed
  /\ ~SessionOpen(sessions, k, session[k])
  /\ sessionPromise[k] = "null"
  /\ Len(sessions[k]) < MaxSessions
  /\ sessionPromise' = [sessionPromise EXCEPT ![k] = "pending"]
  /\ UNCHANGED << clientVars, sessions, session, providerVars, tasks, settleOrder >>

\* Such a write made while a write of this call has a request in flight or
\* waits to retry on the session of kind k.
OtherWriteConnects(k) ==
  /\ \E i \in 1..Len(tasks) : tasks[i].kind = k /\ tasks[i].pc \in {"inflight", "delay"}
  /\ WriteConnects(k)

\* The answers of APNs that matter to the life of a session: a success, a
\* failure that is retried and the failure that tears the session down.
SessionResponses ==
  { r \in Responses : Get(r.headers, ":status") \in {503, 500} \/ r.body = EmptyBody }

\* Calls of two writes: both on the push session, or one on each session.
ConnectArgs ==
  { Array(<< TokenAt(1), TokenAt(2) >>), Array(<< TokenAt(1), SlashedToken >>) }

\* The client with calls of two writes and the events of its sessions.
NextConnect ==
  \/ \E arg \in ConnectArgs : Send(arg)
  \/ \E k \in Kinds : ConnectResolve(k)
  \/ \E k \in Kinds : ConnectReject(k)
  \/ \E i \in 1..MaxBatch, r \in SessionResponses : Respond(i, r)
  \/ \E i \in 1..MaxBatch, e \in StreamEvents : StreamEvent(i, e)
  \/ \E i \in 1..MaxBatch : DelayElapsed(i)
  \/ \E k \in Kinds : \E s \in 1..Len(sessions[k]) : SessionClosed(k, s)
  \/ \E k \in Kinds : \E s \in 1..Len(sessions[k]), e \in SessionEvents : SessionEvent(k, s, e)
  \/ Return

SpecConnect == Init /\ [][NextConnect]_vars

\* The responses of the streams of a call that has to return: a success, and
\* the failure that is retried and at the limit tears the session down.
LiveResponses ==
  { r \in Responses : \/ Get(r.headers, ":status") = 500
                      \/ Get(r.headers, ":status") = 200 /\ r.body.kind = "empty" }

\* The client with calls of one or two writes, shutdown and goaway.
NextLive ==
  \/ Send(Array(<< TokenAt(1), TokenAt(2) >>))
  \/ \E b \in BundleIds : ManageChannels(One(NotificationAt(1)), b, "create")
  \/ \E b \in BundleIds : Broadcast(One(NotificationAt(1)), b)
  \/ \E k \in Kinds : ConnectResolve(k)
  \/ \E k \in Kinds : ConnectReject(k)
  \/ \E i \in 1..MaxBatch, r \in LiveResponses : Respond(i, r)
  \/ \E i \in 1..MaxBatch, e \in StreamEvents : StreamEvent(i, e)
  \/ \E i \in 1..MaxBatch : DelayElapsed(i)
  \/ \E k \in Kinds : \E s \in 1..Len(sessions[k]) : SessionClosed(k, s)
  \/ \E k \in Kinds : \E s \in 1..Len(sessions[k]) : SessionEvent(k, s, "goaway")
  \/ Return
  \/ Shutdown
  \/ \E n \in 1..MaxShutdowns : CloseCallback(n)

\* Stream i ends with a response, times out or is aborted.
StreamEnds(i) ==
  \/ \E r \in LiveResponses : Respond(i, r)
  \/ \E e \in StreamEvents : StreamEvent(i, e)

\* The promise of a connect without a proxy settles: its `then` runs after
\* Promise.resolve().
DirectConnect(k) ==
  /\ ~ProxyOf(k)
  /\ ConnectResolve(k)

\* What the runtime and the peer owe the client: a promise that is resolved
\* has its continuation run, a timer that is set fires, every stream ends,
\* and a session that is closing with no stream left closes. The answer of a
\* proxy is not among them: createProxySocket sets no timeout.
Fairness ==
  /\ \A k \in Kinds : WF_vars(DirectConnect(k))
  /\ \A i \in 1..MaxBatch : WF_vars(StreamEnds(i))
  /\ \A i \in 1..MaxBatch : WF_vars(DelayElapsed(i))
  /\ \A k \in Kinds : \A s \in 1..MaxSessions : WF_vars(SessionClosed(k, s))
  /\ \A n \in 1..MaxShutdowns : WF_vars(CloseCallback(n))
  /\ WF_vars(Return)

SpecLive == Init /\ [][NextLive]_vars /\ Fairness

\* Calls of one write, on the push session or on the management session.
SessionArgs == { One(TokenAt(1)), One(SlashedToken) }

\* The client with a call of one write, the events of its sessions, the
\* writes of other calls and shutdown.
NextSession ==
  \/ \E arg \in SessionArgs : Send(arg)
  \/ \E k \in Kinds : ConnectResolve(k)
  \/ \E k \in Kinds : ConnectReject(k)
  \/ \E r \in SessionResponses : Respond(1, r)
  \/ \E e \in StreamEvents : StreamEvent(1, e)
  \/ DelayElapsed(1)
  \/ \E k \in Kinds : \E s \in 1..Len(sessions[k]) : SessionClosed(k, s)
  \/ \E k \in Kinds : \E s \in 1..Len(sessions[k]), e \in SessionEvents : SessionEvent(k, s, e)
  \/ \E k \in Kinds : OtherWriteConnects(k)
  \/ Return
  \/ Shutdown
  \/ \E n \in 1..MaxShutdowns : CloseCallback(n)

SpecSession == Init /\ [][NextSession]_vars

\* The client with any choice of proxies, a call of one recipient and the
\* writes of other calls that connect either session.
NextProxy ==
  \/ Send(One(TokenAt(1)))
  \/ \E k \in Kinds : WriteConnects(k)
  \/ \E k \in Kinds : ConnectResolve(k)
  \/ \E k \in Kinds : ConnectReject(k)
  \/ \E r \in SessionResponses : Respond(1, r)
  \/ DelayElapsed(1)
  \/ \E k \in Kinds : \E s \in 1..Len(sessions[k]) : SessionClosed(k, s)
  \/ \E k \in Kinds, event \in SessionEvents :
       \E s \in 1..Len(sessions[k]) : SessionEvent(k, s, event)
  \/ Return

InitProxy ==
  /\ InitWith(ProxyConfigs)
  /\ input = NoInput
  /\ output = NoOutput

SpecProxy == InitProxy /\ [][NextProxy]_vars

(***************************************************************************)
(* Responses whose body names a recipient                                  *)
(***************************************************************************)
\* The answers of APNs that matter to the label of an outcome: successes and
\* failures with and without a body, among them bodies that have a key
\* `device` or `bundleId` of their own.
LabelResponses ==
  { [headers |-> (":status" :> 200) @@ ("apns-unique-id" :> "u1"), body |-> EmptyBody],
    Response(200, JsonBody([device |-> <<"other">>])),
    Response(201, JsonBody([bundleId |-> <<"other">>])),
    Response(400, JsonBody([reason |-> "BadDeviceToken", device |-> <<"other">>])),
    Response(400, JsonBody([reason |-> "BadChannelId", bundleId |-> <<"other">>])),
    Response(503, JsonBody([reason |-> "ServiceUnavailable", device |-> <<"other">>])),
    Response(503, EmptyBody) }

\* The client with calls of one recipient or one notification, answered
\* with such responses.
NextLabel ==
  \/ Send(One(TokenAt(1)))
  \/ \E b \in BundleIds : ManageChannels(One(NotificationAt(1)), b, "create")
  \/ \E b \in BundleIds : Broadcast(One(NotificationAt(1)), b)
  \/ \E k \in Kinds : ConnectResolve(k)
  \/ \E k \in Kinds : ConnectReject(k)
  \/ \E r \in LabelResponses : Respond(1, r)
  \/ \E e \in StreamEvents : StreamEvent(1, e)
  \/ DelayElapsed(1)
  \/ Return

SpecLabel == Init /\ [][NextLabel]_vars

(***************************************************************************)
(* The age of the token                                                    *)
(***************************************************************************)
MaxGeneration == 3

\* Time passes: the token becomes 3300 seconds old.
TokenAges ==
  /\ ~token.expired
  /\ token.generation < MaxGeneration
  /\ token' = [token EXCEPT !.expired = TRUE]
  /\ UNCHANGED << clientFields, sessions, session, sessionPromise, providerVars, tasks,
                  settleOrder >>

\* The answers of APNs that matter to the token: a success, the refusal of
\* an expired token and a failure that is retried.
TokenResponses ==
  { r \in Responses :
      \/ Get(r.headers, ":status") = 200 /\ r.body = EmptyBody
      \/ r = Response(403, JsonBody([reason |-> "ExpiredProviderToken"]))
      \/ Get(r.headers, ":status") = 503 }

\* The client with a call of two recipients, whose requests run side by
\* side, a token that ages and sessions that APNs closes.
NextToken ==
  \/ Send(Array(<< TokenAt(1), TokenAt(2) >>))
  \/ \E k \in Kinds : ConnectResolve(k)
  \/ \E k \in Kinds : ConnectReject(k)
  \/ \E i \in 1..MaxBatch, r \in TokenResponses : Respond(i, r)
  \/ \E i \in 1..MaxBatch : DelayElapsed(i)
  \/ \E k \in Kinds : \E s \in 1..Len(sessions[k]) : SessionEvent(k, s, "goaway")
  \/ \E k \in Kinds : \E s \in 1..Len(sessions[k]) : SessionClosed(k, s)
  \/ TokenAges
  \/ Return

SpecToken == Init /\ [][NextToken]_vars

(***************************************************************************)
(* The health checks (intervals set in the constructor)                    *)
(***************************************************************************)
MaxPings == 2

\* session.ping without the test of the interval callback.
HealthCheckUnchecked(k) ==
  /\ healthCheckInterval[k] = "set"
  /\ Len(pings) < MaxPings
  /\ pings' = IF session[k] # 0
                THEN Append(pings, [kind |-> k, sess |-> session[k], state |-> "sent"])
                ELSE pings
  /\ UNCHANGED << config, token, isDestroyed, healthCheckInterval, shutdowns, multi, input,
                  output, sessions, session, sessionPromise, providerVars, tasks, settleOrder >>

\* The callback of the interval of kind k, which runs as long as the interval
\* is not cleared: it calls ping on the session of kind k when there is one
\* that is neither closed nor destroyed and the client is not shut down, and
\* does nothing otherwise.
HealthCheck(k) ==
  /\ healthCheckInterval[k] = "set"
  /\ Len(pings) < MaxPings
  /\ pings' = IF SessionOpen(sessions, k, session[k]) /\ ~isDestroyed
                THEN Append(pings, [kind |-> k, sess |-> session[k], state |-> "sent"])
                ELSE pings
  /\ UNCHANGED << config, token, isDestroyed, healthCheckInterval, shutdowns, multi, input,
                  output, sessions, session, sessionPromise, providerVars, tasks, settleOrder >>

\* The callback of ping runs with the duration, or with an error.
PingOutcomes == {"answered", "failed"}

\* The callback given to session.ping for ping n: it logs the duration or
\* the error and does nothing else. A destroyed session answers no ping.
PingCallback(n, outcome) ==
  /\ n \in 1..Len(pings)
  /\ pings[n].state = "sent"
  /\ outcome = "answered" => ~sessions[pings[n].kind][pings[n].sess].destroyed
  /\ pings' = [pings EXCEPT ![n].state = outcome]
  /\ UNCHANGED << config, token, isDestroyed, healthCheckInterval, shutdowns, multi, input,
                  output, sessions, session, sessionPromise, providerVars, tasks, settleOrder >>

\* The client with calls of one recipient or one notification, the events of
\* its sessions, shutdown and the health checks.
NextPing ==
  \/ Send(One(TokenAt(1)))
  \/ \E b \in BundleIds : ManageChannels(One(NotificationAt(1)), b, "create")
  \/ \E k \in Kinds : ConnectResolve(k)
  \/ \E k \in Kinds : ConnectReject(k)
  \/ \E r \in SessionResponses : Respond(1, r)
  \/ DelayElapsed(1)
  \/ \E k \in Kinds : \E s \in 1..Len(sessions[k]) : SessionClosed(k, s)
  \/ \E k \in Kinds, event \in SessionEvents :
       \E s \in 1..Len(sessions[k]) : SessionEvent(k, s, event)
  \/ Return
  \/ Shutdown
  \/ \E n \in 1..MaxShutdowns : CloseCallback(n)
  \/ \E k \in Kinds : HealthCheck(k)
  \/ \E n \in 1..MaxPings, outcome \in PingOutcomes : PingCallback(n, outcome)

SpecPing == Init /\ [][NextPing]_vars

(***************************************************************************)
(* Client.prototype.request on its own: one stream ends                    *)
(***************************************************************************)
InvalidBody == [kind |-> "invalid"]

Statuses == {200, 201, 204, 400, 403, 429, 500, 503}

\* Response headers: the status, and the headers the 'response' handler
\* reads when the server sends them.
HeaderSets ==
  { [k \in {":status"} \cup opt |->
       CASE k = ":status" -> st
         [] k = "Retry-After" -> "1"
         [] OTHER -> "u1"] :
    st \in Statuses, opt \in SUBSET {"Retry-After", "apns-unique-id"} }

\* Response bodies: none, text that is not JSON, and JSON objects.
Bodies ==
  { EmptyBody, InvalidBody,
    JsonBody([reason |-> "BadDeviceToken"]),
    JsonBody([reason |-> "ExpiredProviderToken"]),
    JsonBody([reason |-> "InternalServerError"]),
    JsonBody([status |-> 400]) }

RequestInputs ==
  { [op |-> "request", response |-> [headers |-> h, body |-> b], hasToken |-> tk] :
    h \in HeaderSets, b \in Bodies, tk \in BOOLEAN }

InitRequest ==
  /\ InitClient
  /\ input \in RequestInputs
  /\ output = NoOutput

\* The stream ends: the 'end' handler settles the promise of request.
EndStream ==
  /\ input.op = "request"
  /\ output = NoOutput
  /\ output' = RequestEnd(input.response, input.hasToken)
  /\ UNCHANGED << config, token, isDestroyed, healthCheckInterval, pings, shutdowns, multi, sessions,
                  session, sessionPromise, call, callState, tasks, writes, collaborator,
                  settleOrder, result, callError, input >>

NextRequest == EndStream

SpecRequest == InitRequest /\ [][NextRequest]_vars

(***************************************************************************)
(* Client.prototype.request on its own: the events of one stream           *)
(***************************************************************************)
\* TIMEOUT_STATUS, ABORTED_STATUS, ERROR_STATUS
PseudoStatuses == {"(timeout)", "(aborted)", "(error)"}

\* The events of a stream that request listens to.
RequestEvents == {"end", "timeout", "aborted", "error", "frameError"}

\* The promise of request before any event: pending. events are the events
\* the stream has emitted so far, and status is the variable `status` of
\* request: what the 'response' handler read, or a pseudo status.
PendingRequest ==
  [state |-> "none", value |-> EmptyObject, events |-> <<>>, status |-> "response"]

\* resolve or reject called on a promise the last call decides.
SettleAgain(promise, outcome) ==
  [promise EXCEPT !.state = outcome.state, !.value = outcome.value]

\* resolve or reject called on the promise of request: the first call
\* settles it, a call on a settled promise does nothing.
Settle(promise, outcome) ==
  IF promise.state = "none"
    THEN [promise EXCEPT !.state = outcome.state, !.value = outcome.value]
    ELSE promise

\* What the handler of `event` passes to resolve or reject when `status` is
\* as given: the 'end' handler rejects on a pseudo status that an earlier
\* handler has left there.
HandlerOutcome(event, status, response, hasToken) ==
  IF event # "end" THEN RequestEvent(event)
  ELSE IF status \in PseudoStatuses
    THEN Rejected(Spread(createHeaderObject(Get(response.headers, "apns-unique-id"),
                                            Get(response.headers, "apns-request-id"),
                                            Get(response.headers, "apns-channel-id")),
                         [status |-> status,
                          retryAfter |-> Get(response.headers, "Retry-After"),
                          error |-> VError("Timeout, aborted, or other unknown error")]))
  ELSE RequestEnd(response, hasToken)

\* `status` after the handler of `event`.
StatusAfter(event, status) ==
  CASE event = "timeout" -> "(timeout)"
    [] event = "aborted" -> "(aborted)"
    [] event = "error" -> "(error)"
    [] OTHER -> status

\* The responses and the credentials of the stream under study.
StreamInputs ==
  { [op |-> "stream", response |-> r, hasToken |-> tk] :
      r \in { [headers |-> (":status" :> 200) @@ ("apns-unique-id" :> "u1"), body |-> EmptyBody],
              Response(400, JsonBody([reason |-> "BadDeviceToken"])),
              Response(403, JsonBody([reason |-> "ExpiredProviderToken"])),
              Response(503, EmptyBody) },
      tk \in BOOLEAN }

InitStream ==
  /\ InitClient
  /\ input \in StreamInputs
  /\ output = PendingRequest

\* The stream emits `event`, each event once at most, and its handler runs:
\* it calls resolve or reject, and the 'end' handler of a 403
\* ExpiredProviderToken regenerates the token first.
StreamEmits(event) ==
  /\ input.op = "stream"
  /\ \A n \in 1..Len(output.events) : output.events[n] # event
  /\ output' = [Settle(output, HandlerOutcome(event, output.status, input.response,
                                              input.hasToken))
                  EXCEPT !.events = Append(@, event),
                         !.status = StatusAfter(event, output.status)]
  /\ token' = IF event = "end" /\ output.status = "response" /\ input.hasToken
                THEN Ended(token, [tokenGeneration |-> 0], input.response)
                ELSE token
  /\ UNCHANGED << config, isDestroyed, healthCheckInterval, pings, shutdowns, multi, sessions,
                  session, sessionPromise, call, callState, tasks, writes, collaborator,
                  settleOrder, result, callError, input >>

NextStream == \E event \in RequestEvents : StreamEmits(event)

SpecStream == InitStream /\ [][NextStream]_vars

(***************************************************************************)
(* Properties                                                              *)
(***************************************************************************)
\* The recipients or notifications the call was given, as a list.
Recipients == IF call.arg.isArray THEN call.arg.items ELSE << call.arg.item >>
Range(f) == { f[i] : i \in DOMAIN f }
Fulfilled(i) == tasks[i].outcome.state = "fulfilled"
RejectedTask(i) == tasks[i].outcome.state = "rejected"

\* The value under the label of entry x names the input the entry comes from.
NamesInput(x, i) ==
  IF call.op = "send" THEN Get(x, "device") = Recipients[i]
  ELSE Get(x, "bundleId") = call.bundleId

\* C1: a batch over N recipients or notifications resolves with
\* |sent| + |failed| = N, and every input is the origin of exactly one entry
\* of the two lists, which carries its label.
C1_EveryInputOnce ==
  callState = "resolved" =>
    /\ Len(result.sent) + Len(result.failed) = Len(Recipients)
    /\ Len(result.sentFrom) = Len(result.sent)
    /\ Len(result.failedFrom) = Len(result.failed)
    /\ Range(result.sentFrom) \cup Range(result.failedFrom) = 1..Len(Recipients)
    /\ \A j \in 1..Len(result.sent) :
         /\ result.sent[j] = tasks[result.sentFrom[j]].outcome.value
         /\ NamesInput(result.sent[j], result.sentFrom[j])
    /\ \A j \in 1..Len(result.failed) :
         /\ result.failed[j] = tasks[result.failedFrom[j]].outcome.value
         /\ NamesInput(result.failed[j], result.failedFrom[j])

\* A batch of two has resolved with a fulfilled write in sent and a rejected
\* one in failed.
C1_Witness ==
  /\ callState = "resolved"
  /\ Len(Recipients) = 2
  /\ Len(result.sent) = 1
  /\ Len(result.failed) = 1
  /\ RejectedTask(result.failedFrom[1])

\* C2: no entry of failed has a retryAfter key, and no write settles with
\* one, whichever way the write failed.
C2_NoRetryAfter ==
  /\ \A j \in 1..Len(result.failed) : "retryAfter" \notin DOMAIN result.failed[j]
  /\ \A i \in 1..Len(tasks) :
       tasks[i].pc = "done" /\ RejectedTask(i) =>
         "retryAfter" \notin DOMAIN tasks[i].outcome.value

\* A write on the management session ran out of retries on a 429 that came
\* with Retry-After, and its failure is in failed.
C2_Witness ==
  /\ callState = "resolved"
  /\ \E j \in 1..Len(result.failed) :
       LET t == tasks[result.failedFrom[j]]
       IN /\ t.via = "limit"
          /\ t.kind = "manage"
          /\ Get(t.last, "retryAfter") = "1"
          /\ result.failed[j].status = 429

\* C3: the call makes every write before it suspends, it resolves only once
\* every write has settled, and a write that rejects never makes the call
\* reject: its reason is collected in failed with the other settlements.
C3_SettleAll ==
  /\ callState \in {"running", "resolved"} =>
       /\ Len(tasks) = Len(Recipients)
       /\ Len(writes) = Len(Recipients)
       /\ \A i \in 1..Len(tasks) : tasks[i].pc # "unstarted"
  /\ callState = "resolved" => \A i \in 1..Len(tasks) : tasks[i].pc = "done"
  /\ callState = "rejected" => tasks = <<>>
  /\ callState = "resolved" =>
       \A i \in 1..Len(tasks) :
         RejectedTask(i) =>
           \E j \in 1..Len(result.failed) :
             result.failedFrom[j] = i /\ result.failed[j] = tasks[i].outcome.value

\* The first write of a batch of two rejected while the second was still in
\* flight, and the call resolved with the second in sent.
C3_Witness ==
  /\ callState = "resolved"
  /\ settleOrder = <<1, 2>>
  /\ RejectedTask(1)
  /\ result.sentFrom = <<2>>
  /\ result.failedFrom = <<1>>

\* C4: a settlement is in sent if and only if it is fulfilled with a value
\* that has neither status nor error; every other one is in failed.
C4_SentIffClean ==
  callState = "resolved" =>
    \A i \in 1..Len(tasks) :
      LET clean == /\ Fulfilled(i)
                   /\ "status" \notin DOMAIN tasks[i].outcome.value
                   /\ "error" \notin DOMAIN tasks[i].outcome.value
      IN /\ i \in Range(result.sentFrom) <=> clean
         /\ i \in Range(result.failedFrom) <=> ~clean

\* A write fulfilled with a value carrying an error and no status, and the
\* value is in failed.
C4_Witness ==
  /\ callState = "resolved"
  /\ \E j \in 1..Len(result.failed) :
       /\ Fulfilled(result.failedFrom[j])
       /\ "error" \in DOMAIN result.failed[j]
       /\ "status" \notin DOMAIN result.failed[j]

Increasing(seq) == \A a, b \in 1..Len(seq) : a < b => seq[a] < seq[b]

\* C5: within sent and within failed the entries are in the order of their
\* inputs, whatever the order in which the writes settled.
C5_InputOrder ==
  callState = "resolved" =>
    /\ Increasing(result.sentFrom)
    /\ Increasing(result.failedFrom)
    /\ \A j \in 1..Len(result.sent) :
         result.sent[j] = tasks[result.sentFrom[j]].outcome.value
    /\ \A j \in 1..Len(result.failed) :
         result.failed[j] = tasks[result.failedFrom[j]].outcome.value

\* The second write settled before the first, both failed, and failed lists
\* them first, second.
C5_Witness ==
  /\ callState = "resolved"
  /\ settleOrder = <<2, 1>>
  /\ result.failedFrom = <<1, 2>>
  /\ result.failed[1] # result.failed[2]

\* The writes the call would make for the same item given as a one-element
\* array.
WritesOf(op, arg) ==
  CASE op.op = "send" -> SendWrites(arg)
    [] op.op = "manageChannels" -> ManageChannelsWrites(arg, op.bundleId, op.action)
    [] OTHER -> BroadcastWrites(arg, op.bundleId)

\* C6: a call given a single item makes the one write, and resolves with the
\* one entry, of the call given the array of that item, and the other way
\* round.
C6_SingleAsArray ==
  callState \in {"running", "resolved"} /\ Len(Recipients) = 1 =>
    LET item == Recipients[1]
    IN /\ writes = WritesOf(call, Array(<<item>>))
       /\ writes = WritesOf(call, One(item))
       /\ Len(writes) = 1
       /\ writes[1].subDirectory = (IF call.op = "send" THEN item ELSE call.bundleId)
       /\ Len(tasks) = 1
       /\ callState = "resolved" =>
            /\ Len(result.sent) + Len(result.failed) = 1
            /\ result.sent \o result.failed = <<tasks[1].outcome.value>>

\* A send to a single token, not in an array, resolved with that token in
\* sent.
C6_Witness ==
  /\ callState = "resolved"
  /\ call.op = "send"
  /\ ~call.arg.isArray
  /\ Len(result.sent) = 1
  /\ result.sent[1].device = call.arg.item

\* No session was ever created and no connection was begun.
NoSessionOpened ==
  \A k \in Kinds : sessions[k] = <<>> /\ session[k] = 0 /\ sessionPromise[k] = "null"

C8_ActionMapping ==
  call.op = "manageChannels" /\ callState \in {"running", "resolved"} =>
    /\ Len(writes) = Len(Recipients)
    /\ \A i \in 1..Len(writes) :
         /\ writes[i].notification = Built(Recipients[i])
         /\ writes[i].subDirectory = call.bundleId
         /\ Label(tasks[i]) = [bundleId |-> call.bundleId]
         /\ << call.action, writes[i].type, writes[i].method >> \in
              { << "create", "channels", "post" >>, << "read", "channels", "get" >>,
                << "readAll", "allChannels", "get" >>, << "delete", "channels", "delete" >> }

\* readAll over two notifications has made its two writes.
C8_Witness ==
  /\ call.op = "manageChannels"
  /\ call.action = "readAll"
  /\ callState = "running"
  /\ Len(writes) = 2
  /\ writes[2].type = "allChannels"

\* C9: a write issues at most connectionRetryLimit + 1 attempts, and one that
\* ends because the limit is reached throws the failure of its last attempt.
C9_RetryLimit ==
  \A i \in 1..Len(tasks) :
    /\ tasks[i].attempts <= connectionRetryLimit + 1
    /\ tasks[i].count <= connectionRetryLimit
    /\ tasks[i].via = "limit" =>
         /\ tasks[i].attempts = connectionRetryLimit + 1
         /\ tasks[i].last # EmptyObject
         /\ tasks[i].outcome =
              Rejected(Spread(Label(tasks[i]), DeleteKey(tasks[i].last, "retryAfter")))

\* A write has settled at the limit with the 400 of its last attempt, after
\* a first attempt that failed otherwise.
C9_Witness ==
  \E i \in 1..Len(tasks) :
    /\ tasks[i].pc = "done"
    /\ tasks[i].via = "limit"
    /\ tasks[i].attempts = connectionRetryLimit + 1
    /\ tasks[i].outcome.value.status = 400

\* The failure or value o carries this status.
StatusIs(o, status) == "status" \in DOMAIN o /\ o.status = status

\* A write that would start now on the session of kind k has to connect first.
NextWriteConnects(k) ==
  LET item == [notification |-> Built(NotificationAt(1)), subDirectory |-> <<"next">>,
               type |-> IF k = "push" THEN "device" ELSE "channels", method |-> "post"]
  IN write(item, sessionPromise).task.pc = "connecting"

\* Task i settles in this step at the retry limit.
SettlesAtLimit(i) ==
  /\ i \in 1..Len(tasks)
  /\ tasks[i].pc \notin {"done", "closing"}
  /\ tasks'[i].pc \in {"done", "closing"}
  /\ tasks'[i].via = "limit"

\* C11: a write whose retries are exhausted with a final failure of status
\* 500 has closed and destroyed the session it used before it settles, and a
\* write of that kind started then connects anew; a write that reaches the
\* limit with any other failure finds its session open and leaves every
\* session as it is.
C11_TeardownOn500 ==
  /\ [](\A i \in 1..Len(tasks) :
          /\ tasks[i].via = "limit"
          /\ StatusIs(tasks[i].outcome.value, 500)
          => /\ sessions[tasks[i].kind][tasks[i].sess].closed
             /\ tasks[i].pc = "done" =>
                  /\ sessions[tasks[i].kind][tasks[i].sess].destroyed
                  /\ ~isDestroyed => NextWriteConnects(tasks[i].kind))
  /\ [][\A i \in 1..MaxBatch :
          SettlesAtLimit(i) /\ ~StatusIs(tasks'[i].outcome.value, 500)
          => /\ sessions' = sessions
             /\ tasks'[i].pc = "done"
             /\ SessionOpen(sessions', tasks'[i].kind, tasks'[i].sess)]_vars

\* A write has settled at the limit with status 500 and its session is
\* destroyed.
C11_Witness ==
  \E i \in 1..Len(tasks) :
    /\ tasks[i].pc = "done"
    /\ tasks[i].via = "limit"
    /\ StatusIs(tasks[i].outcome.value, 500)
    /\ sessions[tasks[i].kind][tasks[i].sess].destroyed

\* Whether seq begins with prefix.
BeginsWith(seq, prefix) ==
  Len(seq) >= Len(prefix) /\ SubSeq(seq, 1, Len(prefix)) = prefix

\* Task i has chosen its session: its write got past makePath, HTTPMethod
\* and the test of isDestroyed.
ChoseSession(i) == tasks[i].via \notin {"path", "method", "destroyed"}

\* C13: whatever the recipient string, a write of type channels or
\* allChannels uses the management session and authority, one of type device
\* or broadcasts the push session and authority, and a write uses the
\* management session exactly when its path begins with /1/apps/.
C13_SessionByType ==
  \A i \in 1..Len(tasks) :
    ChoseSession(i) =>
      LET t == tasks[i]
          path == makePath(t.type, t.subDirectory)
      IN /\ t.type \in {"channels", "allChannels"} =>
              t.kind = "manage" /\ t.address = "manageChannelsAddress"
         /\ t.type \in {"device", "broadcasts"} =>
              t.kind = "push" /\ t.address = "address"
         /\ t.kind = "manage" <=> BeginsWith(path, <<"1", "apps">>)

\* String.prototype.includes
Includes(str, sub) ==
  \E i \in 1..Len(str) :
    i + Len(sub) - 1 <= Len(str) /\ SubSeq(str, i, i + Len(sub) - 1) = sub

\* C18: a write whose connection fails at the proxy rejects with its label
\* and an error and without status; the error is the structured rejection of
\* the dial, whose cause says "cannot connect to proxy server"; and no
\* request was issued for it on any session.
C18_ProxyFailure ==
  \A i \in 1..Len(tasks) :
    tasks[i].via = "connect" =>
      LET t == tasks[i]
          value == t.outcome.value
      IN /\ t.pc = "done"
         /\ RejectedTask(i)
         /\ DOMAIN value = DOMAIN Label(t) \cup {"error"}
         /\ \A key \in DOMAIN Label(t) : value[key] = t.subDirectory
         /\ "status" \notin DOMAIN value
         /\ "error" \in DOMAIN value.error
         /\ Includes(value.error.error.message, "cannot connect to proxy server")
         /\ t.attempts = 0
         /\ t.sess = 0

\* A send through an unreachable proxy has resolved with the recipient in
\* failed, carrying the error of the dial.
C18_Witness ==
  /\ callState = "resolved"
  /\ call.op = "send"
  /\ Len(result.failed) = 1
  /\ tasks[1].via = "connect"
  /\ result.failed[1].device = tasks[1].subDirectory
  /\ "error" \in DOMAIN result.failed[1]

\* The failure of an attempt whose timeout fired.
IsTimeout(error) ==
  /\ "error" \in DOMAIN error
  /\ "message" \in DOMAIN error.error
  /\ error.error.message = "apn write timeout"

\* The timeout of the attempt in flight of task i fires in this step.
TimeoutFires(i) ==
  /\ i \in 1..Len(tasks)
  /\ tasks[i].pc = "inflight"
  /\ IsTimeout(tasks'[i].last)

\* C19: when the timeout of a request fires, that request rejects with
\* {error: 'apn write timeout'} and nothing else; no session is closed,
\* destroyed or replaced, and every other write keeps its state and outcome.
\* A write on its first attempt settles with that error under its label.
C19_TimeoutFrame ==
  [][\A i \in 1..MaxBatch :
       TimeoutFires(i) =>
         /\ tasks'[i].last = [error |-> VError("apn write timeout")]
         /\ sessions' = sessions
         /\ session' = session
         /\ sessionPromise' = sessionPromise
         /\ SessionOpen(sessions, tasks[i].kind, tasks[i].sess)
              => SessionOpen(sessions', tasks[i].kind, tasks[i].sess)
         /\ Len(tasks') = Len(tasks)
         /\ \A j \in 1..Len(tasks) : j # i => tasks'[j] = tasks[j]
         /\ tasks[i].count = 0 =>
              /\ tasks'[i].pc = "done"
              /\ tasks'[i].outcome =
                   Rejected(Spread(Label(tasks[i]), [error |-> VError("apn write timeout")]))]_vars

\* One write of a batch of two has timed out while the other is still in
\* flight on the same session, which is open.
C19_Witness ==
  \E i, j \in 1..Len(tasks) :
    /\ i # j
    /\ tasks[i].pc = "done"
    /\ IsTimeout(tasks[i].last)
    /\ tasks[j].pc = "inflight"
    /\ tasks[j].kind = tasks[i].kind
    /\ tasks[j].sess = tasks[i].sess
    /\ SessionOpen(sessions, tasks[j].kind, tasks[j].sess)

\* Shutdown call n has its callback called in this step.
CallbackNow(n) ==
  /\ n \in 1..Len(shutdowns')
  /\ shutdowns'[n].called = 1
  /\ IF n \in 1..Len(shutdowns) THEN shutdowns[n].called = 0 ELSE TRUE

\* In the state this step leads to, the client's session of kind k, if it has
\* one, is closed and destroyed.
GoneAfterStep(k) ==
  IF session'[k] = 0 THEN TRUE
  ELSE sessions'[k][session'[k]].closed /\ sessions'[k][session'[k]].destroyed

\* C12: shutdown may be called any number of times: every call that has ended
\* has called its callback exactly once and none more than once, only the
\* first call closes sessions and clears the PING timers, and whenever a
\* callback is called, also that of a call made while an earlier one is still
\* closing, both sessions of the client are closed and destroyed.
C12_ShutdownIdempotent ==
  /\ [](\A n \in 1..Len(shutdowns) :
          /\ shutdowns[n].called <= 1
          /\ shutdowns[n].pc = "done" => shutdowns[n].called = 1
          /\ n > 1 => shutdowns[n].closes = 0 /\ shutdowns[n].clears = 0)
  /\ [][\A n \in 1..MaxShutdowns :
          CallbackNow(n) => \A k \in Kinds : GoneAfterStep(k)]_vars

\* The other kind of session.
Other(k) == IF k = "push" THEN "manage" ELSE "push"

\* The writes that await the connection of kind k.
Awaiting(k) == { i \in 1..Len(tasks) : tasks[i].pc = "connecting" /\ tasks[i].kind = k }

\* C21: every write that awaits a connection awaits the one attempt in
\* flight for its kind; an attempt that resolves creates exactly one session,
\* on which all the writes that awaited it issue their request; and a step of
\* one kind leaves the attempt, the sessions and the waiting writes of the
\* other kind as they are.
C21_Coalesced ==
  /\ [](\A i \in 1..Len(tasks) :
          tasks[i].pc = "connecting" => sessionPromise[tasks[i].kind] = "pending")
  /\ [][\A k \in Kinds :
          /\ Len(sessions'[k]) <= Len(sessions[k]) + 1
          /\ (sessionPromise[k] = "pending" /\ sessionPromise'[k] = "null")
               <=> Len(sessions'[k]) = Len(sessions[k]) + 1
          /\ Len(sessions'[k]) = Len(sessions[k]) + 1 =>
               /\ \A i \in Awaiting(k) :
                    /\ tasks'[i].pc = "inflight"
                    /\ tasks'[i].sess = Len(sessions'[k])
               /\ sessionPromise'[Other(k)] = sessionPromise[Other(k)]
               /\ sessions'[Other(k)] = sessions[Other(k)]
               /\ \A i \in Awaiting(Other(k)) : tasks'[i] = tasks[i]]_vars

\* Two writes that awaited the same attempt have issued their requests on
\* the one session it created, while no other session of that kind exists.
C21_Witness ==
  /\ Len(tasks) = 2
  /\ tasks[1].kind = tasks[2].kind
  /\ tasks[1].pc = "inflight" /\ tasks[2].pc = "inflight"
  /\ tasks[1].attempts = 1 /\ tasks[2].attempts = 1
  /\ tasks[1].sess = tasks[2].sess
  /\ Len(sessions[tasks[1].kind]) = 1

\* Write i issues a request in this step: its first attempt or a retry.
Issues(i) ==
  /\ i \in 1..Len(tasks')
  /\ tasks'[i].attempts > (IF i \in 1..Len(tasks) THEN tasks[i].attempts ELSE 0)

\* C22: a request, first attempt or retry, is issued only on a session that
\* exists and is neither closed nor destroyed when the request is issued; a
\* retry whose delay ends on a closed session issues nothing.
C22_IssuedOnOpenSession ==
  [][\A i \in 1..MaxBatch :
       Issues(i) => SessionOpen(sessions', tasks'[i].kind, tasks'[i].sess)]_vars

\* A retry was scheduled on an open session, the session was closed during
\* the delay, and the write has failed without a further attempt.
C22_Witness ==
  \E i \in 1..Len(tasks) :
    /\ tasks[i].pc = "done"
    /\ tasks[i].via = "closed"
    /\ tasks[i].count >= 1
    /\ tasks[i].attempts = tasks[i].count

\* A retry is due for write i in this step: an attempt of it fails with a
\* failure that retryRequest is called for, or the delay of its retry ends.
RetryDue(i) ==
  IF i \notin 1..Len(tasks) THEN FALSE
  ELSE \/ /\ tasks[i].pc = "inflight"
          /\ tasks'[i].pc # "inflight"
          /\ tasks'[i].via # "ok"
          /\ tasks[i].count >= 1 \/ Retryable(tasks'[i].last)
       \/ /\ tasks[i].pc = "delay"
          /\ tasks'[i].pc # "delay"

\* Write i fails in this step without a further attempt, with the label of
\* its recipient and the error of a closed session, and nothing else.
FailsClosed(i) ==
  /\ tasks'[i].pc = "done"
  /\ tasks'[i].attempts = tasks[i].attempts
  /\ tasks'[i].outcome = Rejected(Spread(Label(tasks[i]), ClosedError))

\* The session the retry of write i would be issued on: the current session
\* of its kind when its first attempt fails, then the session of the retry.
RetrySession(i) ==
  IF tasks[i].pc = "inflight" /\ tasks[i].count = 0
    THEN session[tasks[i].kind]
    ELSE tasks[i].sess

C29_ReconnectsAfterRejection ==
  \A k \in Kinds :
    sessionPromise[k] = "rejected" /\ ~isDestroyed => NextWriteConnects(k)

\* The sessions a client can have had of one kind.
SessionIds == 1..(MaxSessions + 1)

\* C28: a goaway, an error or a frameError event on a session leaves that
\* session closed, a closed session is never open again and is destroyed
\* once no request is left on it, and when the client is not shut down and
\* the session is the current one of its kind, a write of that kind started
\* after the event connects before it issues its request.
C28_EventReconnects ==
  /\ [][\A k \in Kinds : \A s \in SessionIds : \A event \in SessionEvents :
          SessionEvent(k, s, event)
          => /\ sessions'[k][s].closed
             /\ ~isDestroyed /\ s = session[k] => NextWriteConnects(k)']_vars
  /\ [][\A k \in Kinds : \A s \in 1..Len(sessions[k]) :
          sessions[k][s].closed => sessions'[k][s].closed]_vars

\* The proxy a session of kind k has to go through: the socket of the proxy
\* of k when k has one, a socket of its own when it has none.
OwnSocket(k) == IF ProxyOf(k) THEN k ELSE "none"

\* C30: every session of either kind runs over the socket of the proxy of
\* its own kind, or over a socket of its own when its kind has no proxy,
\* whichever kind connected first.
C30_OwnProxyOnly ==
  \A k \in Kinds : \A s \in 1..Len(sessions[k]) : sessions[k][s].socket = OwnSocket(k)

\* A ping is sent in this step.
PingSent == Len(pings') > Len(pings)

\* C27: a ping is sent only on the current session of its kind, while that
\* session exists and is neither closed nor destroyed and the client is not
\* shut down; after shutdown no ping is sent and the timers are cleared; and
\* the step in which a ping fails leaves every session, the current sessions
\* and the connection attempts as they are.
C27_PingOnlyWhileOpen ==
  /\ [][PingSent
        => LET ping == pings'[Len(pings')]
           IN /\ ping.sess = session[ping.kind]
              /\ SessionOpen(sessions, ping.kind, ping.sess)
              /\ ~isDestroyed]_vars
  /\ [](isDestroyed => \A k \in Kinds : healthCheckInterval[k] = "null")
  /\ [][isDestroyed => ~PingSent]_vars
  /\ [][\A n \in 1..Len(pings) :
          pings[n].state = "sent" /\ pings'[n].state = "failed"
          => /\ sessions' = sessions
             /\ session' = session
             /\ sessionPromise' = sessionPromise]_vars

\* A ping has failed on a session that is still open and is the current one
\* of its kind, and a later ping on it was answered.
C27_Witness ==
  \E n \in 1..Len(pings) : \E m \in (n + 1)..Len(pings) :
    /\ pings[n].state = "failed"
    /\ pings[m].state = "answered"
    /\ pings[m].kind = pings[n].kind
    /\ pings[m].sess = pings[n].sess
    /\ pings[n].sess = session[pings[n].kind]
    /\ SessionOpen(sessions, pings[n].kind, pings[n].sess)

\* The last failure of task i is a 403 with reason ExpiredProviderToken.
TokenRefused(t) ==
  /\ StatusIs(t.last, 403)
  /\ "error" \in DOMAIN t.last
  /\ Get(t.last.error, "message") = "ExpiredProviderToken"

\* The request of task i ends in this step with a 403 ExpiredProviderToken.
Refused(i) ==
  IF i > Len(tasks) THEN FALSE
  ELSE /\ tasks[i].pc = "inflight"
       /\ tasks'[i].pc # "inflight"
       /\ TokenRefused(tasks'[i])

\* A request is issued for task i in this step: a first attempt or a retry.
Requests(i) ==
  IF i > Len(tasks') THEN FALSE
  ELSE IF i > Len(tasks) THEN tasks'[i].pc = "inflight"
  ELSE tasks'[i].pc = "inflight" /\ tasks'[i].attempts = tasks[i].attempts + 1

\* C23: a new token is minted exactly when the generation goes up, by one; a
\* request refused with 403 ExpiredProviderToken that observed the current
\* generation mints one token, and one that observed an older generation
\* changes nothing, so that of the requests that observed one generation
\* only the first to be refused regenerates; and an expired token found when
\* a request is issued is regenerated once, whatever the number of requests
\* issued in that step.
C23_OneRegeneration ==
  /\ [][/\ token'.generation \in {token.generation, token.generation + 1}
        /\ token'.current # token.current <=> token'.generation = token.generation + 1]_vars
  /\ [][\A i \in 1..MaxBatch :
          Refused(i)
          => IF tasks[i].tokenGeneration = token.generation
               THEN token'.generation = token.generation + 1
               ELSE token' = token]_vars
  /\ [][(\E i \in 1..MaxBatch : Requests(i))
        => token'.generation = IF token.expired THEN token.generation + 1
                               ELSE token.generation]_vars
  /\ [](\A i \in 1..Len(tasks) : tasks[i].tokenGeneration <= token.generation)

\* Two requests that observed the same generation have both been refused
\* for an expired token, and the generation is one above the one they
\* observed.
C23_Witness ==
  /\ Len(tasks) = 2
  /\ \A i \in 1..2 : tasks[i].pc = "delay" /\ TokenRefused(tasks[i])
  /\ tasks[1].tokenGeneration = tasks[2].tokenGeneration
  /\ token.generation = tasks[1].tokenGeneration + 1

\* The session that retryRequest tests when the attempt of task t fails: the
\* current one of the kind after the first attempt, its own after a retry.
TestedSession(t) == IF t.count = 0 THEN session[t.kind] ELSE t.sess

\* C24: when an attempt is refused with 403 ExpiredProviderToken, the token
\* is regenerated with the generation that attempt observed and its
\* generation is then above that one; the write waits to retry when the
\* client is not shut down, the session is not closed and the retry limit is
\* not reached, and fails otherwise; and the retry carries a token of a
\* generation above the one the refused attempt carried.
C24_RetryWithNewToken ==
  /\ [][\A i \in 1..MaxBatch :
          Refused(i)
          => /\ token' = regenerate(token, tasks[i].tokenGeneration)
             /\ token'.generation > tasks[i].tokenGeneration
             /\ token'.current > tasks[i].authorization
             /\ IF /\ ~isDestroyed
                   /\ ~sessions[tasks[i].kind][TestedSession(tasks[i])].closed
                   /\ tasks[i].count < connectionRetryLimit
                  THEN tasks'[i].pc = "delay" /\ tasks'[i].count = tasks[i].count + 1
                  ELSE tasks'[i].pc = "done" /\ tasks'[i].via \in {"closed", "limit"}]_vars
  /\ [][\A i \in 1..MaxBatch :
          Requests(i) /\ i <= Len(tasks) /\ TokenRefused(tasks[i])
          => /\ tasks'[i].authorization > tasks[i].authorization
             /\ tasks'[i].authorization = token'.current]_vars

\* A retry that carried the token of a later generation than the first has
\* been refused in its turn, and the token was regenerated again.
C24_Witness ==
  \E i \in 1..Len(tasks) :
    /\ tasks[i].pc = "delay"
    /\ TokenRefused(tasks[i])
    /\ tasks[i].attempts = 2
    /\ tasks[i].authorization = 1
    /\ token.generation = 2

\* C25: every request issued, first attempt or retry, carries in its
\* authorization header the token that is current once the request is
\* issued, the generation it keeps is the generation of that token, and that
\* token is not expired: a token found expired was regenerated first.
C25_FreshTokenOnIssue ==
  [][\A i \in 1..MaxBatch :
       Requests(i) /\ config.token
       => /\ tasks'[i].authorization = token'.current
          /\ tasks'[i].tokenGeneration = token'.generation
          /\ ~isExpired(token')
          /\ isExpired(token) => token'.generation = token.generation + 1]_vars

\* The token expired before the first attempts were issued: both carry the
\* token of the next generation, which is the current one and not expired.
C25_Witness ==
  /\ Len(tasks) = 2
  /\ \A i \in 1..2 :
       /\ tasks[i].pc = "inflight"
       /\ tasks[i].attempts = 1
       /\ tasks[i].authorization = 1
  /\ token.current = 1
  /\ ~token.expired

\* The callback of the shutdown call that closes the sessions has been
\* called.
ShutdownCallbackFired == shutdowns # <<>> /\ shutdowns[1].called = 1

\* C31: once the callback of shutdown has been called, no session of the
\* client is open and no session is created, also when the shutdown was
\* called while a write awaited a connection attempt.
C31_NoSessionAfterShutdown ==
  /\ [](ShutdownCallbackFired
        => \A k \in Kinds : \A s \in 1..Len(sessions[k]) : ~SessionOpen(sessions, k, s))
  /\ [][ShutdownCallbackFired
        => \A k \in Kinds : Len(sessions'[k]) = Len(sessions[k])]_vars

\* A call begins in this step on a client that has been shut down.
CallAfterShutdown == callState = "idle" /\ callState' = "running" /\ isDestroyed

\* C32: every write of a call made after shutdown fails at once with the
\* label of its recipient and the error 'client is destroyed': no connection
\* attempt is started, no session is created and no request is issued; and
\* when the call has returned, every such write is in `failed` and none is
\* in `sent`.
C32_WriteAfterShutdown ==
  /\ [][CallAfterShutdown
        => /\ sessionPromise' = sessionPromise
           /\ sessions' = sessions
           /\ \A i \in 1..Len(tasks') :
                /\ tasks'[i].pc = "done"
                /\ tasks'[i].via = "destroyed"
                /\ tasks'[i].attempts = 0
                /\ tasks'[i].outcome =
                     Rejected(Spread(Label(tasks'[i]),
                                     [error |-> VError("client is destroyed")]))]_vars
  /\ [](\A i \in 1..Len(tasks) :
          tasks[i].via = "destroyed"
          => /\ tasks[i].pc = "done" /\ tasks[i].attempts = 0
             /\ callState = "resolved"
                => /\ i \in Range(result.failedFrom)
                   /\ i \notin Range(result.sentFrom)
                   /\ \E j \in 1..Len(result.failed) :
                        /\ result.failedFrom[j] = i
                        /\ result.failed[j] = tasks[i].outcome.value)

\* A call made after shutdown has returned with its write in `failed`.
C32_Witness ==
  /\ callState = "resolved"
  /\ isDestroyed
  /\ Len(tasks) = 1
  /\ tasks[1].via = "destroyed"
  /\ Len(result.failed) = 1
  /\ result.failed[1].error = VError("client is destroyed")
  /\ "device" \in DOMAIN result.failed[1]

\* Session s of kind k emits 'close', 'error', 'goaway' or 'frameError' in
\* this step, after another session has taken its place.
ReplacedSessionEmits(k, s) ==
  /\ s # session[k]
  /\ \/ SessionClosed(k, s)
     \/ \E event \in SessionEvents : SessionEvent(k, s, event)

\* C33: an event of a session that has been replaced changes that session
\* alone: the current session of its kind, every other session of the kind,
\* the sessions of the other kind and the sessions the client holds stay as
\* they are.
C33_OldSessionOnly ==
  [][\A k \in Kinds : \A s \in SessionIds :
       ReplacedSessionEmits(k, s)
       => /\ session' = session
          /\ sessions'[Other(k)] = sessions[Other(k)]
          /\ \A r \in 1..Len(sessions[k]) : r # s => sessions'[k][r] = sessions[k][r]
          /\ sessions'[k][s].closed /\ Len(sessions'[k]) = Len(sessions[k])]_vars

\* A session was replaced while a request was in flight on it and has been
\* destroyed since; the session that replaced it and the session of the
\* other kind are open.
C33_Witness ==
  /\ Len(tasks) = 1
  /\ tasks[1].pc = "inflight" /\ tasks[1].sess = 1
  /\ sessions["push"][1].destroyed
  /\ session["push"] = 2
  /\ SessionOpen(sessions, "push", 2)
  /\ SessionOpen(sessions, "manage", session["manage"])

\* The write of task i gives up in this step with a final status 500.
TearsDownNow(i) == SettlesAtLimit(i) /\ StatusIs(tasks'[i].outcome.value, 500)

\* C34, as stated: the teardown of a write whose final failure has status
\* 500 closes the session its request was first issued on, and leaves every
\* other session, a newer one of the same kind included, as it was.
C34_TearsDownFirstSession ==
  [][\A i \in 1..MaxBatch :
       TearsDownNow(i)
       => LET k == tasks[i].kind
              s == tasks[i].first
          IN /\ sessions'[k][s].closed
             /\ sessions'[Other(k)] = sessions[Other(k)]
             /\ \A r \in 1..Len(sessions[k]) : r # s => sessions'[k][r] = sessions[k][r]]_vars

\* C34, amended: the teardown of a write whose final failure has status 500
\* closes the session the failed attempt was issued on, which is the current
\* one of its kind, and leaves every other session of the kind and every session
\* of the other kind as it was; once the write has settled, that session is
\* destroyed.
C34_TearsDownOwnSession ==
  /\ [][\A i \in 1..MaxBatch :
          TearsDownNow(i)
          => LET k == tasks[i].kind
                 s == tasks[i].sess
             IN /\ tasks'[i].sess = s
                /\ sessions'[k][s].closed
                /\ session' = session
                /\ sessions'[Other(k)] = sessions[Other(k)]
                /\ \A r \in 1..Len(sessions[k]) : r # s => sessions'[k][r] = sessions[k][r]]_vars
  /\ [](\A i \in 1..Len(tasks) :
          /\ tasks[i].pc = "done"
          /\ tasks[i].via = "limit"
          /\ StatusIs(tasks[i].outcome.value, 500)
          => sessions[tasks[i].kind][tasks[i].sess].destroyed)

\* A write whose first attempt ran on a session that was replaced has torn
\* down the newer session, on which its retries ran, while the session of
\* the other kind is open.
C34_Witness ==
  /\ Len(tasks) = 1
  /\ tasks[1].pc = "done" /\ tasks[1].via = "limit"
  /\ StatusIs(tasks[1].outcome.value, 500)
  /\ tasks[1].first = 1
  /\ tasks[1].sess = 2
  /\ sessions["push"][2].destroyed
  /\ SessionOpen(sessions, "manage", session["manage"])

\* C35: the outcome of every write that has settled, a success or a failure,
\* has the label field of its request type, and the value of that field is
\* the recipient the write was given, whatever the response body holds.
C35_LabelIsRecipient ==
  \A i \in 1..Len(tasks) :
    tasks[i].pc = "done"
    => LET label == subDirectoryLabel(tasks[i].type)
           value == tasks[i].outcome.value
       IN /\ label \in DOMAIN value
          /\ value[label] = tasks[i].subDirectory

\* The state and the value of a promise.
Settlement(promise) == [state |-> promise.state, value |-> promise.value]

\* C36: the promise of request is settled from the first event of its stream
\* on, with what the handler of that event passes to resolve or reject, and
\* a settled promise keeps its state and its value whatever event follows.
C36_SettlesOnce ==
  /\ [](output.events # <<>>
        => /\ output.state \in {"fulfilled", "rejected"}
           /\ Settlement(output) =
                HandlerOutcome(output.events[1], "response", input.response, input.hasToken))
  /\ [](output.events = <<>> => output.state = "none")
  /\ [][output.state # "none" => Settlement(output') = Settlement(output)]_vars

\* A stream has timed out, then ended with a success, then failed: the
\* promise is rejected with the timeout.
C36_Witness ==
  /\ input.op = "stream"
  /\ Len(output.events) = 3
  /\ output.events[1] = "timeout"
  /\ output.events[2] = "end"
  /\ Get(input.response.headers, ":status") = 200
  /\ Settlement(output) = Rejected([error |-> VError("apn write timeout")])

\* The failure of a stream that ended with a status outside 200, 201, 204 and
\* an empty body.
EmptyBodyFailure(error) ==
  /\ "error" \in DOMAIN error
  /\ \E status \in {429, 500, 503} :
       error.error = VError("stream ended unexpectedly with status " \o ToString(status)
                            \o " and empty body")

\* C37: a write whose stream ended with a status outside 200, 201, 204 and
\* an empty body is over: it is neither waiting for a retry nor in flight
\* again nor closing its session, and its failure carries the error and no
\* status.
C37_EmptyBodyFailureIsFinal ==
  \A i \in 1..Len(tasks) :
    EmptyBodyFailure(tasks[i].last)
      => /\ tasks[i].pc = "done"
         /\ tasks[i].outcome.state = "rejected"
         /\ EmptyBodyFailure(tasks[i].outcome.value)
         /\ "status" \notin DOMAIN tasks[i].outcome.value

\* The same for the first attempt of a write alone.
C37_FirstAttemptOnly ==
  \A i \in 1..Len(tasks) :
    EmptyBodyFailure(tasks[i].last) /\ tasks[i].attempts = 1
      => /\ tasks[i].pc = "done"
         /\ tasks[i].outcome.state = "rejected"
         /\ EmptyBodyFailure(tasks[i].outcome.value)
         /\ "status" \notin DOMAIN tasks[i].outcome.value

RECURSIVE PoolWrites(_)
\* The clients of the writes the pool has handled, in the order of the
\* writes.
PoolWrites(calls) ==
  IF Len(calls) = 0 THEN <<>> ELSE Head(calls).clients \o PoolWrites(Tail(calls))

\* C38: in a pool of K clients the index stays in 0..K-1, the n-th write the
\* pool handles, counting from 0, goes to client n mod K (clients numbered
\* from 0 in the code, from 1 here), so K writes in a row use every client
\* once, and every retry of a write runs on the client of that write without
\* moving the index.
C38_RoundRobin ==
  multi.state = "created" =>
    LET K == Len(multi.clients)
        W == PoolWrites(multi.calls)
    IN /\ multi.clientIndex \in 0..(K - 1)
       /\ multi.clientIndex = Len(W) % K
       /\ \A n \in 1..Len(W) : W[n] = ((n - 1) % K) + 1
       /\ \A first \in 1..(Len(W) - K + 1) :
            /\ { W[first + d] : d \in 0..(K - 1) } = 1..K
            /\ \A d, e \in 0..(K - 1) : W[first + d] = W[first + e] => d = e
       /\ \A n \in 1..Len(multi.calls) :
            \A r \in 1..Len(multi.calls[n].retries) :
              multi.calls[n].retries[r].client =
                multi.calls[n].clients[multi.calls[n].retries[r].write]

\* A pool of three clients has handled four writes, the fourth on the first
\* client again, and the first write of the second call, on the third client,
\* has been retried while the index points at the second.
C38_Witness ==
  /\ multi.state = "created"
  /\ Len(multi.clients) = 3
  /\ PoolWrites(multi.calls) = <<1, 2, 3, 1>>
  /\ multi.clientIndex = 1
  /\ Len(multi.calls) = 2
  /\ Len(multi.calls[2].retries) >= 1
  /\ multi.calls[2].retries[1] = [write |-> 1, client |-> 3]

\* C39: when every stream ends and every session close completes, every
\* send, manageChannels and broadcast call that is running returns its
\* result, whatever shutdown, goaway or teardown happens meanwhile.
C39_CallReturns == (callState = "running") ~> (callState = "resolved")

\* A connection attempt through a proxy is waiting for the proxy.
ProxyPending == \E k \in Kinds : ProxyOf(k) /\ sessionPromise[k] = "pending"

\* Every call that is running returns, unless a proxy leaves a connection
\* attempt without an answer for ever.
CallReturnsUnlessProxyHangs ==
  \/ (callState = "running") ~> (callState = "resolved")
  \/ <>[]ProxyPending

\* C10: a retry is scheduled only after a failure that is retryable: a
\* failure that is not ends the write, in a retry as in the first attempt.
C10_RetryOnlyRetryable ==
  \A i \in 1..Len(tasks) : tasks[i].pc = "delay" => Retryable(tasks[i].last)

(***************************************************************************)
(* config (lib/config.js): the endpoints                                   *)
(***************************************************************************)
EndpointAddress ==
  [production |-> "api.push.apple.com", development |-> "api.sandbox.push.apple.com"]

ManageChannelsEndpointAddress ==
  [production |-> "api-manage-broadcast.push.apple.com",
   development |-> "api-manage-broadcast.sandbox.push.apple.com"]

Null == "null"

\* manageChannelsPort: null. A port is a number here, and null is written
\* 0, which `!options.manageChannelsPort` treats as it treats null.
NullPort == 0

\* The defaults of config that the endpoints depend on; nodeEnvProduction
\* is process.env.NODE_ENV === 'production'.
Defaults(nodeEnvProduction) ==
  [production |-> nodeEnvProduction, address |-> Null, port |-> 443,
   manageChannelsAddress |-> Null, manageChannelsPort |-> NullPort]

\* configureAddress leaving the production flag as it was given.
configureAddressKeepsFlag(options) ==
  IF options.address = Null
    THEN [options EXCEPT !.address = IF options.production
                                       THEN EndpointAddress.production
                                       ELSE EndpointAddress.development]
    ELSE options

configureAddress(options) ==
  IF options.address = Null
    THEN [options EXCEPT !.address = IF options.production
                                       THEN EndpointAddress.production
                                       ELSE EndpointAddress.development]
    ELSE [options EXCEPT !.production = (options.address = EndpointAddress.production)]

configureManageChannelsPort(options) ==
  IF options.manageChannelsPort = NullPort
    THEN [options EXCEPT !.manageChannelsPort = IF options.production THEN 2196 ELSE 2195]
    ELSE options

configureManageChannelsAddress(options) ==
  configureManageChannelsPort(
    IF options.manageChannelsAddress = Null
      THEN [options EXCEPT !.manageChannelsAddress =
              IF options.production
                THEN ManageChannelsEndpointAddress.production
                ELSE ManageChannelsEndpointAddress.development]
      ELSE options)

\* config(options): extend(config, options), configureAddress,
\* configureManageChannelsAddress.
Config(options, nodeEnvProduction) ==
  configureManageChannelsAddress(configureAddress(Spread(Defaults(nodeEnvProduction), options)))

\* A key left out, or given with one of the values.
Optional(key, values) == { EmptyObject } \cup { [k \in {key} |-> v] : v \in values }

\* The options a caller may give for the endpoints: each of the four keys
\* left out or given.
OptionSets ==
  { Spread(Spread(a, b), Spread(c, d)) :
      a \in Optional("production", BOOLEAN),
      b \in Optional("address", {EndpointAddress.production, EndpointAddress.development,
                                 "localhost"}),
      c \in Optional("manageChannelsAddress", {"manage.localhost"}),
      d \in Optional("manageChannelsPort", {8443}) }

ConfigInputs ==
  { [op |-> "config", options |-> o, nodeEnvProduction |-> e] :
    o \in OptionSets, e \in BOOLEAN }

InitConfig ==
  /\ InitClient
  /\ input \in ConfigInputs
  /\ output = NoOutput

\* config(options) returns.
Configure ==
  /\ input.op = "config"
  /\ output = NoOutput
  /\ output' = [state |-> "returned",
                value |-> Config(input.options, input.nodeEnvProduction)]
  /\ UNCHANGED << config, token, isDestroyed, healthCheckInterval, pings, shutdowns, multi, sessions,
                  session, sessionPromise, call, callState, tasks, writes, collaborator,
                  settleOrder, result, callError, input >>

NextConfig == Configure

SpecConfig == InitConfig /\ [][NextConfig]_vars

\* C17: an address given and equal to the production host sets production,
\* any other address given clears it, whatever the production option says;
\* with no address the production option (or, without it, NODE_ENV) selects
\* the push host; the management host and port, where not given, follow the
\* resulting mode: the production host and 2196, or the sandbox host and
\* 2195; and what was given is kept.
C17_Endpoints ==
  output # NoOutput =>
    LET o == input.options
        c == output.value
        flag == IF "production" \in DOMAIN o THEN o.production
                ELSE input.nodeEnvProduction
    IN /\ "address" \in DOMAIN o =>
            /\ c.address = o.address
            /\ c.production = (o.address = "api.push.apple.com")
       /\ "address" \notin DOMAIN o =>
            /\ c.production = flag
            /\ c.address = IF flag THEN "api.push.apple.com"
                           ELSE "api.sandbox.push.apple.com"
       /\ c.manageChannelsAddress =
            IF "manageChannelsAddress" \in DOMAIN o THEN o.manageChannelsAddress
            ELSE IF c.production THEN "api-manage-broadcast.push.apple.com"
            ELSE "api-manage-broadcast.sandbox.push.apple.com"
       /\ c.manageChannelsPort =
            IF "manageChannelsPort" \in DOMAIN o THEN o.manageChannelsPort
            ELSE IF c.production THEN 2196 ELSE 2195

\* production: true was given with the address localhost: the mode is
\* development and the management endpoint is the sandbox one, port 2195.
C17_Witness ==
  /\ output # NoOutput
  /\ input.options = [production |-> TRUE, address |-> "localhost"]
  /\ ~output.value.production
  /\ output.value.manageChannelsAddress = "api-manage-broadcast.sandbox.push.apple.com"
  /\ output.value.manageChannelsPort = 2195

\* The headers of a response that a success or a failure echoes.
Echoes(headers) ==
  [k \in DOMAIN headers \cap {"apns-unique-id", "apns-request-id", "apns-channel-id"} |->
     headers[k]]

\* The body is {reason: ...} of a case the 'end' handler answers with an
\* error of its own.
OwnError(status, body) ==
  /\ body.kind = "json"
  /\ "reason" \in DOMAIN body.json
  /\ \/ status = 403 /\ body.json.reason = "ExpiredProviderToken"
     \/ status = 500 /\ body.json.reason = "InternalServerError"

\* C20 as stated: a stream that ends resolves exactly when the status is
\* 200, 201 or 204, with the echoes merged with the parsed body or with {};
\* otherwise it rejects, with status and the parsed response whenever the
\* body is not empty.
C20_SuccessIffStatus ==
  output # NoOutput =>
    LET headers == input.response.headers
        body == input.response.body
        status == headers[":status"]
    IN /\ output.state = "fulfilled" <=> status \in {200, 201, 204}
       /\ output.state = "fulfilled" =>
            /\ body.kind # "invalid"
            /\ output.value = Spread(Echoes(headers),
                                     IF body.kind = "empty" THEN EmptyObject ELSE body.json)
       /\ output.state = "rejected" /\ body.kind # "empty" =>
            /\ body.kind = "json"
            /\ StatusIs(output.value, status)
            /\ "response" \in DOMAIN output.value
            /\ output.value.response = body.json

\* C20 amended: a stream that ends resolves exactly when the status is 200,
\* 201 or 204 and the body is empty or valid JSON, with the echoes merged
\* with the parsed body or with {}. A failure for a valid JSON body carries
\* status and the parsed response, except for 403 ExpiredProviderToken and
\* 500 InternalServerError, which carry error and no response (and, for the
\* 403 without token credentials, no status either). A body that is not
\* valid JSON yields a failure with error alone, whatever the status.
C20_SuccessOrFailure ==
  output # NoOutput =>
    LET headers == input.response.headers
        body == input.response.body
        status == headers[":status"]
        value == output.value
    IN /\ output.state \in {"fulfilled", "rejected"}
       /\ output.state = "fulfilled" <=>
            status \in {200, 201, 204} /\ body.kind # "invalid"
       /\ output.state = "fulfilled" =>
            value = Spread(Echoes(headers),
                           IF body.kind = "empty" THEN EmptyObject ELSE body.json)
       /\ output.state = "rejected" /\ body.kind = "json" =>
            IF OwnError(status, body)
              THEN /\ "error" \in DOMAIN value
                   /\ "response" \notin DOMAIN value
                   /\ StatusIs(value, status) <=> (status = 500 \/ input.hasToken)
              ELSE /\ StatusIs(value, status)
                   /\ "response" \in DOMAIN value
                   /\ value.response = body.json
       /\ body.kind = "invalid" =>
            output.state = "rejected" /\ DOMAIN value = {"error"}

\* A 403 ExpiredProviderToken has rejected with status and error and
\* without response.
C20_Witness ==
  /\ output.state = "rejected"
  /\ input.response.body = JsonBody([reason |-> "ExpiredProviderToken"])
  /\ StatusIs(output.value, 403)
  /\ "error" \in DOMAIN output.value
  /\ "response" \notin DOMAIN output.value

(***************************************************************************)
(* MultiClient (lib/multiclient.js)                                        *)
(***************************************************************************)
\* The values options.clientCount is given: left out, a number (whole, or
\* whole + 0.5 when half), NaN, Infinity, or a string of characters.
Absent == [type |-> "undefined"]
JsNumber(whole, half) == [type |-> "number", kind |-> "finite", whole |-> whole, half |-> half]
JsNaN == [type |-> "number", kind |-> "NaN"]
JsInfinity == [type |-> "number", kind |-> "Infinity"]
JsString(chars) == [type |-> "string", chars |-> chars]

\* The truthiness `||` tests.
ToBoolean(v) ==
  CASE v.type = "undefined" -> FALSE
    [] v.type = "string" -> v.chars # <<>>
    [] v.kind = "finite" -> ~(v.whole = 0 /\ ~v.half)
    [] OTHER -> v.kind = "Infinity"

\* a || b
OrElse(a, b) == IF ToBoolean(a) THEN a ELSE b

\* What parseInt and the loop count with: an integer, or NaN.
IntegerResult(n) == [nan |-> FALSE, value |-> n]
NaNResult == [nan |-> TRUE]

DigitValue ==
  ("0" :> 0) @@ ("1" :> 1) @@ ("2" :> 2) @@ ("3" :> 3) @@ ("4" :> 4) @@
  ("5" :> 5) @@ ("6" :> 6) @@ ("7" :> 7) @@ ("8" :> 8) @@ ("9" :> 9)

RECURSIVE LeadingDigits(_, _)
\* The decimal digits a string begins with, as a number.
LeadingDigits(chars, acc) ==
  IF chars = <<>> THEN acc
  ELSE IF Head(chars) \notin DOMAIN DigitValue THEN acc
  ELSE LeadingDigits(Tail(chars),
                     [seen |-> TRUE, value |-> 10 * acc.value + DigitValue[Head(chars)]])

\* parseInt(v, 10): the value as a string, read up to the first character
\* that is not a digit. A number loses its fraction, towards zero; NaN,
\* Infinity and a string without a leading digit give NaN.
parseInt(v) ==
  CASE v.type = "string" ->
         LET d == LeadingDigits(v.chars, [seen |-> FALSE, value |-> 0])
         IN IF d.seen THEN IntegerResult(d.value) ELSE NaNResult
    [] v.type = "undefined" -> NaNResult
    [] v.kind = "finite" ->
         IntegerResult(IF v.half /\ v.whole < 0 THEN v.whole + 1 ELSE v.whole)
    [] OTHER -> NaNResult

\* new Client(options), as far as the pool is concerned: the fields shutdown
\* works on, the promises of connect, and the writes the client was given.
NewClient ==
  [isDestroyed |-> FALSE,
   healthCheckInterval |-> [k \in Kinds |-> "set"],
   sessions |-> [k \in Kinds |-> <<>>],
   session |-> [k \in Kinds |-> 0],
   sessionPromise |-> [k \in Kinds |-> "null"],
   shutdowns |-> <<>>]

\* function MultiClient(options)
MultiClient(options) ==
  LET count == parseInt(OrElse(options.clientCount, JsNumber(2, FALSE)))
  IN IF (IF count.nan THEN TRUE ELSE count.value < 1)
       THEN [threw |-> TRUE]
       ELSE [threw |-> FALSE,
             clients |-> [i \in 1..count.value |-> NewClient],
             clientIndex |-> 0]

\* chooseSingleClient without the step of the index: the pool keeps to one
\* client.
chooseSingleClientSticky(m) == [client |-> m.clientIndex + 1, multi |-> m]

\* chooseSingleClient: the client at clientIndex (numbered from 1 here), and
\* the index moved on by one, round the pool.
chooseSingleClient(m) ==
  [client |-> m.clientIndex + 1,
   multi |-> [m EXCEPT !.clientIndex = (m.clientIndex + 1) % Len(m.clients)]]

\* Client.prototype.write of a client of the pool, up to its first
\* suspension: unless it throws, it connects when the session is not open.
ClientWrite(c, item) ==
  LET path == makePath(item.type, item.subDirectory)
      k == SessionKind(path)
  IN IF path = NullPath THEN c
     ELSE IF HTTPMethod(item.method) = "null" THEN c
     ELSE IF c.isDestroyed THEN c
     ELSE IF SessionOpen(c.sessions, k, c.session[k]) THEN c
     ELSE IF c.sessionPromise[k] = "rejected" THEN c
     ELSE [c EXCEPT !.sessionPromise[k] = "pending"]

\* MultiClient.prototype.write for a write of the call of that number: the chosen
\* client is noted.
MultiWrite(m, item, number) ==
  LET chosen == chooseSingleClient(m)
  IN [chosen.multi EXCEPT !.clients[chosen.client] = ClientWrite(@, item),
                          !.calls[number].clients = Append(@, chosen.client)]

RECURSIVE MultiWriteEach(_, _, _)
\* items.map(async item => await this.client.write(...)) with the pool as
\* this.client.
MultiWriteEach(m, items, number) ==
  IF Len(items) = 0 THEN m
  ELSE MultiWriteEach(MultiWrite(m, Head(items), number), Tail(items), number)

\* multiCallback of shutdown call n.
MultiCallback(m, n) ==
  LET count == m.shutdowns[n].callCount + 1
  IN [m EXCEPT !.shutdowns[n].callCount = count,
               !.shutdowns[n].called = @ + IF count = Len(m.clients) THEN 1 ELSE 0]

RECURSIVE ShutdownLoop(_, _, _)
\* for (const client of this.clients) await client.shutdown(multiCallback),
\* from client i on, up to the first client whose shutdown has to wait.
ShutdownLoop(m, n, i) ==
  IF i > Len(m.clients) THEN [m EXCEPT !.shutdowns[n].at = i]
  ELSE LET c == shutdown(m.clients[i], n)
           e == Len(c.shutdowns)
           m1 == [m EXCEPT !.clients[i] = c]
       IN IF c.shutdowns[e].pc = "done"
            THEN ShutdownLoop(MultiCallback(m1, n), n, i + 1)
            ELSE [m1 EXCEPT !.shutdowns[n].at = i]

\* MultiClient.prototype.shutdown, up to its first await that has to wait.
MultiClientShutdown(m) ==
  LET n == Len(m.shutdowns) + 1
  IN ShutdownLoop([m EXCEPT !.shutdowns = Append(@, [callCount |-> 0, called |-> 0, at |-> 0])],
                  n, 1)

ClientCounts ==
  { Absent, JsNaN, JsInfinity, JsString(<<"a", "b", "c">>) }
    \cup { JsNumber(whole, half) : whole \in (0 - 2)..MaxClients, half \in BOOLEAN }

MultiInputs == { [op |-> "MultiClient", options |-> [clientCount |-> v]] : v \in ClientCounts }

InitMulti ==
  /\ InitClient
  /\ input \in MultiInputs
  /\ output = NoOutput

multiVars ==
  << config, token, isDestroyed, healthCheckInterval, pings, shutdowns, sessions, session,
     sessionPromise,
     call, callState, tasks, writes, collaborator, settleOrder, result, callError, input >>

\* new MultiClient(options)
Construct ==
  LET made == MultiClient(input.options)
  IN /\ output = NoOutput
     /\ IF made.threw
          THEN /\ output' = [state |-> "threw"]
               /\ multi' = multi
          ELSE /\ output' = [state |-> "returned"]
               /\ multi' = [state |-> "created", clients |-> made.clients,
                            clientIndex |-> made.clientIndex,
                            calls |-> <<>>, shutdowns |-> <<>>]
     /\ UNCHANGED multiVars

\* A provider whose client is the pool starts the writes of a call.
MultiFanout(op, items) ==
  /\ multi.state = "created"
  /\ Len(multi.calls) < MaxCalls
  /\ multi' = MultiWriteEach([multi EXCEPT !.calls = Append(@, [op |-> op, clients |-> <<>>,
                                                            retries |-> <<>>])],
                             items, Len(multi.calls) + 1)
  /\ UNCHANGED << multiVars, output >>

MultiSend(arg) ==
  /\ multi.state = "created"
  /\ MultiFanout("send", SendWrites(arg))

MultiManageChannels(arg, bundleId, action) ==
  /\ multi.state = "created"
  /\ action \in SupportedActions
  /\ MultiFanout("manageChannels", ManageChannelsWrites(arg, bundleId, action))

MultiBroadcast(arg, bundleId) ==
  /\ multi.state = "created"
  /\ MultiFanout("broadcast", BroadcastWrites(arg, bundleId))

\* The `then` of connect in client i of the pool: the session is created.
PoolConnectResolve(i, k) ==
  /\ multi.state = "created"
  /\ i \in 1..Len(multi.clients)
  /\ multi.clients[i].sessionPromise[k] = "pending"
  /\ multi' = [multi EXCEPT !.clients[i] =
                 [@ EXCEPT !.sessionPromise[k] = "null",
                           !.sessions[k] = Append(@, [closed |-> FALSE, destroyed |-> FALSE]),
                           !.session[k] = Len(multi.clients[i].sessions[k]) + 1]]
  /\ UNCHANGED << multiVars, output >>

\* A closed session of client i emits 'close' and is destroyed.
PoolSessionClosed(i, k) ==
  /\ multi.state = "created"
  /\ i \in 1..Len(multi.clients)
  /\ multi.clients[i].session[k] # 0
  /\ multi.clients[i].sessions[k][multi.clients[i].session[k]].closed
  /\ ~multi.clients[i].sessions[k][multi.clients[i].session[k]].destroyed
  /\ multi' = [multi EXCEPT
                 !.clients[i].sessions[k][multi.clients[i].session[k]].destroyed = TRUE]
  /\ UNCHANGED << multiVars, output >>

\* multiClient.shutdown(callback) is called.
MultiShutdown ==
  /\ multi.state = "created"
  /\ Len(multi.shutdowns) < MaxShutdowns
  /\ multi' = MultiClientShutdown(multi)
  /\ UNCHANGED << multiVars, output >>

\* The session that shutdown call e of client i waits for is gone: the call
\* goes on, and when it ends the loop of the MultiClient call that made it
\* goes on with the next client.
PoolCloseCallback(i, e) ==
  /\ multi.state = "created"
  /\ i \in 1..Len(multi.clients)
  /\ e \in 1..Len(multi.clients[i].shutdowns)
  /\ multi.clients[i].shutdowns[e].pc \in {"push", "manage"}
  /\ SessionGone(multi.clients[i], multi.clients[i].shutdowns[e].pc,
                 multi.clients[i].shutdowns[e].target)
  /\ LET c == Continue(multi.clients[i], e)
         n == c.shutdowns[e].callback
         m == [multi EXCEPT !.clients[i] = c]
     IN multi' = IF c.shutdowns[e].pc = "done"
                   THEN ShutdownLoop(MultiCallback(m, n), n, i + 1)
                   ELSE m
  /\ UNCHANGED << multiVars, output >>

NextMulti ==
  \/ Construct
  \/ \E arg \in RecipientArgs : MultiSend(arg)
  \/ \E arg \in NotificationArgs, b \in BundleIds, a \in ManageActions :
       MultiManageChannels(arg, b, a)
  \/ \E arg \in NotificationArgs, b \in BundleIds : MultiBroadcast(arg, b)
  \/ \E i \in 1..MaxClients, k \in Kinds : PoolConnectResolve(i, k)
  \/ \E i \in 1..MaxClients, k \in Kinds : PoolSessionClosed(i, k)
  \/ MultiShutdown
  \/ \E i \in 1..MaxClients, e \in 1..MaxShutdowns : PoolCloseCallback(i, e)

SpecMulti == InitMulti /\ [][NextMulti]_vars

\* The client a retry of write j of call n runs on, were retryRequest to go
\* through the pool again.
RetryClientChosen(m, n, j) == m.clientIndex + 1

\* The client a retry of write j of call n runs on: retryRequest is called
\* on `this` inside the write of the client that the pool chose.
RetryClient(m, n, j) == m.calls[n].clients[j]

\* A request of write j of call n has failed and write retries it.
PoolRetry(n, j) ==
  /\ multi.state = "created"
  /\ n \in 1..Len(multi.calls)
  /\ j \in 1..Len(multi.calls[n].clients)
  /\ Len(multi.calls[n].retries) < MaxRetries
  /\ multi' = [multi EXCEPT !.calls[n].retries =
                                Append(@, [write |-> j, client |-> RetryClient(multi, n, j)])]
  /\ UNCHANGED << multiVars, output >>

NextPool ==
  \/ Construct
  \/ \E arg \in RecipientArgs : MultiSend(arg)
  \/ \E arg \in NotificationArgs, b \in BundleIds, a \in ManageActions :
       MultiManageChannels(arg, b, a)
  \/ \E arg \in NotificationArgs, b \in BundleIds : MultiBroadcast(arg, b)
  \/ \E n \in 1..MaxCalls, j \in 1..MaxBatch : PoolRetry(n, j)

SpecPool == InitMulti /\ [][NextPool]_vars

\* The clientCount given is a finite positive integer.
PositiveInteger(v) ==
  IF v.type # "number" THEN FALSE
  ELSE IF v.kind # "finite" THEN FALSE
  ELSE ~v.half /\ v.whole >= 1

\* The constructor returned a pool of n clients.
Created(n) ==
  /\ output.state = "returned"
  /\ multi.state = "created"
  /\ Len(multi.clients) = n

\* C16: the constructor throws and makes no client for every clientCount
\* given that is not a finite positive integer, makes exactly k clients for a
\* finite positive integer k, and makes 2 when clientCount is left out.
C16_ClientCount ==
  output # NoOutput =>
    LET v == input.options.clientCount
    IN IF v.type = "undefined" THEN Created(2)
       ELSE IF PositiveInteger(v) THEN Created(v.whole)
       ELSE output.state = "threw" /\ multi.state = "none"

\* This step is a send, manageChannels or broadcast call on the pool.
FanoutStep ==
  IF multi.state # "created" THEN FALSE
  ELSE Len(multi'.calls) = Len(multi.calls) + 1

\* The clients chosen for the writes of the call this step makes.
ChosenNow == multi'.calls[Len(multi'.calls)].clients

\* C14, as stated: all the requests of one call go through the same client
\* and the counter advances once per call, whatever the number of recipients.
C14_OneClientPerCall ==
  [][FanoutStep /\ Len(ChosenNow) >= 1 =>
       /\ \A j \in 1..Len(ChosenNow) : ChosenNow[j] = ChosenNow[1]
       /\ multi'.clientIndex = (multi.clientIndex + 1) % Len(multi.clients)]_vars

\* C14, amended: every request of a call is routed on its own, to the client
\* the counter points at, and the counter advances once per request: the
\* j-th request of a call goes to the client j - 1 places after the one the
\* counter pointed at when the call began, round the pool.
C14_OneClientPerWrite ==
  [][FanoutStep =>
       /\ \A j \in 1..Len(ChosenNow) :
            ChosenNow[j] = ((multi.clientIndex + j - 1) % Len(multi.clients)) + 1
       /\ multi'.clientIndex = (multi.clientIndex + Len(ChosenNow)) % Len(multi.clients)]_vars

\* A call of two requests on a pool of more than one client has used two
\* clients.
C14_Witness ==
  /\ multi.state = "created"
  /\ Len(multi.clients) > 1
  /\ \E n \in 1..Len(multi.calls) :
       /\ Len(multi.calls[n].clients) = 2
       /\ multi.calls[n].clients[1] # multi.calls[n].clients[2]

\* The caller's callback of pool shutdown call n is called in this step.
CallerCallbackNow(n) ==
  IF multi.state # "created" THEN FALSE
  ELSE IF n \notin 1..Len(multi'.shutdowns) THEN FALSE
  ELSE /\ multi'.shutdowns[n].called = 1
       /\ IF n \in 1..Len(multi.shutdowns) THEN multi.shutdowns[n].called = 0 ELSE TRUE

\* The shutdown of client c is complete: the call that closes its sessions
\* has ended.
ShutdownComplete(c) ==
  IF c.shutdowns = <<>> THEN FALSE ELSE c.shutdowns[1].pc = "done"

\* C15: a shutdown of the pool shuts down every client and calls the
\* caller's callback exactly once, and only when the shutdown of every client
\* is complete.
C15_PoolShutdown ==
  /\ [](multi.state = "created" =>
          \A n \in 1..Len(multi.shutdowns) :
            /\ multi.shutdowns[n].called <= 1
            /\ multi.shutdowns[n].at > Len(multi.clients) =>
                 /\ multi.shutdowns[n].called = 1
                 /\ \A i \in 1..Len(multi.clients) : multi.clients[i].isDestroyed)
  /\ [][\A n \in 1..MaxShutdowns :
          CallerCallbackNow(n) =>
            \A i \in 1..Len(multi'.clients) : ShutdownComplete(multi'.clients[i])]_vars

====
